---------------------------- MODULE Spec2Model ----------------------------
(***************************************************************************)
(* Model of the course recommendation pipeline                             *)
(* (src/src/ai/pipeline.py, gating.py, ranker.py, embeddings.py and        *)
(* src/src/data_loader.py).                                                *)
(*                                                                         *)
(* Texts are TLA+ strings, read character by character with SubSeq.        *)
(* Scores and thresholds are fixed-point integers in hundredths            *)
(* (0.35 is 35, 1.0 is 100).  Arabic letters are written with the          *)
(* stand-in characters of ArabicChars.                                     *)
(***************************************************************************)
EXTENDS Integers, Sequences, FiniteSets, TLC

(***************************************************************************)
(* Characters and strings (Python str, re)                                 *)
(***************************************************************************)
None == "None"
NaN == "NaN"

\* Optional values: <<>> is Python's None, <<v>> is the value v
Nothing == <<>>
Some(v) == <<v>>
Get(o) == o[1]

UpperChars == "ABCDEFGHIJKLMNOPQRSTUVWXYZ"
LowerChars == "abcdefghijklmnopqrstuvwxyz"
DigitChars == "0123456789"
\* stand-ins for code points of the Arabic block U+0600..U+06FF
ArabicChars == "@~^$"

Ch(s, i) == SubSeq(s, i, i)

CharSet(alphabet) == {Ch(alphabet, i) : i \in 1..Len(alphabet)}

UpperSet == CharSet(UpperChars)
ArabicSet == CharSet(ArabicChars)

LowerOf ==
  [c \in UpperSet |-> Ch(LowerChars, CHOOSE i \in 1..Len(UpperChars) : Ch(UpperChars, i) = c)]

\* str.lower() on one character
LowerChar(c) == IF c \in UpperSet THEN LowerOf[c] ELSE c

RECURSIVE ConcatRange(_, _, _)
\* the string parts[lo] parts[lo+1] ... parts[hi]
ConcatRange(parts, lo, hi) ==
  IF lo > hi THEN ""
  ELSE IF lo = hi THEN parts[lo]
  ELSE LET mid == (lo + hi) \div 2
       IN  ConcatRange(parts, lo, mid) \o ConcatRange(parts, mid + 1, hi)

\* str.lower()
Lower(s) == ConcatRange([i \in 1..Len(s) |-> LowerChar(Ch(s, i))], 1, Len(s))

\* the regular expression class \w (letters of any script, digits, underscore)
WordChars == CharSet(LowerChars) \cup UpperSet \cup CharSet(DigitChars) \cup ArabicSet \cup {"_"}

IsWordChar(c) == c \in WordChars

\* the position between s[p-1] and s[p] is a \b word boundary
IsBoundary(s, p) ==
  LET before == p > 1 /\ IsWordChar(Ch(s, p - 1))
      after  == p <= Len(s) /\ IsWordChar(Ch(s, p))
  IN  before # after

\* sub occurs in s starting at position p
OccursAt(s, sub, p) == p + Len(sub) - 1 <= Len(s) /\ SubSeq(s, p, p + Len(sub) - 1) = sub

\* Python's `sub in s`
Contains(s, sub) == \E p \in 1..(Len(s) + 1) : OccursAt(s, sub, p)

\* the pieces of s between the separator positions seps, empty ones included
PiecesBetween(s, seps) ==
  [k \in 1..(Len(seps) + 1) |->
     SubSeq(s, IF k = 1 THEN 1 ELSE seps[k - 1] + 1,
               IF k = Len(seps) + 1 THEN Len(s) ELSE seps[k] - 1)]

\* str.split(): the whitespace-separated tokens
Split(s) ==
  LET IsSpace(p) == Ch(s, p) = " "
      NonEmpty(t) == t # ""
  IN  SelectSeq(PiecesBetween(s, SelectSeq([p \in 1..Len(s) |-> p], IsSpace)), NonEmpty)

RECURSIVE JoinRange(_, _, _)
JoinRange(tokens, lo, hi) ==
  IF lo > hi THEN ""
  ELSE IF lo = hi THEN tokens[lo]
  ELSE LET mid == (lo + hi) \div 2
       IN  JoinRange(tokens, lo, mid) \o " " \o JoinRange(tokens, mid + 1, hi)

\* " ".join(tokens)
Join(tokens) == JoinRange(tokens, 1, Len(tokens))

RECURSIVE FlattenRange(_, _, _)
\* the concatenation of the sequences parts[lo], ..., parts[hi]
FlattenRange(parts, lo, hi) ==
  IF lo > hi THEN <<>>
  ELSE IF lo = hi THEN parts[lo]
  ELSE LET mid == (lo + hi) \div 2
       IN  FlattenRange(parts, lo, mid) \o FlattenRange(parts, mid + 1, hi)


(***************************************************************************)
(* src/src/config.py                                                       *)
(***************************************************************************)
SEMANTIC_THRESHOLD_ARABIC == 25
SEMANTIC_THRESHOLD_GENERAL == 35
SEMANTIC_THRESHOLD_RELAXED == 22
TOP_K_Candidates == 100

(***************************************************************************)
(* src/src/ai/gating.py                                                    *)
(***************************************************************************)
STRICT_TECH_KEYWORDS ==
  {"python", "java", "c#", "c++", "javascript", "php", "ruby", "swift", "kotlin", "dart",
   "rust", "golang", "sql", "flutter", "react", "angular", "vue", "django", "flask",
   "spring", "laravel", ".net", "node", "express", "pandas", "tensorflow", "pytorch",
   "keras", "html", "css", "linux", "docker", "kubernetes", "aws", "azure", "gcp",
   "excel", "photoshop", "illustrator", "figma", "jira", "git", "marketing", "accounting",
   "finance", "sales", "hr", "management"}

GatingStopwords ==
  {"course", "learn", "tutorial", "basics", "advanced", "introduction",
   "guide", "complete", "bootcamp", "masterclass", "fundamentals",
   "beginner", "intermediate", "expert", "programming", "language"}

\* the tokens of the query that are strict keywords, or are no stopword and
\* have at least two characters (the tokens are kept as written)
extract_strong_keywords_regex(query) ==
  LET Keep(t) == \/ Lower(t) \in STRICT_TECH_KEYWORDS
                 \/ (Lower(t) \notin GatingStopwords /\ Len(t) >= 2)
  IN  SelectSeq(Split(query), Keep)

\* check_match without the word boundaries: a plain substring test
check_match_substring(text, kw) == Contains(Lower(text), Lower(kw))

\* re.search(pattern_str, text, re.IGNORECASE) with
\* pattern_str = [\b] re.escape(kw) [\b | (?!\w)]
check_match(text, kw) ==
  LET n == Len(kw)
      lt == Lower(text)
      lk == Lower(kw)
  IN  \E p \in 1..(Len(text) + 1) :
        /\ OccursAt(lt, lk, p)
        /\ IsWordChar(Ch(kw, 1)) => IsBoundary(text, p)
        /\ IF IsWordChar(Ch(kw, n))
           THEN IsBoundary(text, p + n)
           ELSE ~(p + n <= Len(text) /\ IsWordChar(Ch(text, p + n)))

\* str(course.get(field, '')).lower(), with 'nan' replaced by ''
CourseField(v) ==
  LET s == IF v = NaN THEN "nan" ELSE Lower(v)
  IN  IF s = "nan" THEN "" ELSE s

\* the query keywords found in the title or the skills, else in the description
MatchedKeywords(course, keywords) ==
  LET title == CourseField(course.title)
      skills == CourseField(course.skills)
      desc == CourseField(course.description)
      Hit(kw) == \/ check_match(title, kw)
                 \/ check_match(skills, kw)
                 \/ check_match(desc, kw)
  IN  SelectSeq(keywords, Hit)

\* the decision without the branch for strict keywords: any matched keyword,
\* or for a longer query a high score, admits the course
GateDecision_NoStrictBranch(score, threshold, keywords, matched, is_short_query) ==
  IF score < threshold THEN [valid |-> FALSE, matched |-> <<>>]
  ELSE IF Len(keywords) = 0 THEN [valid |-> TRUE, matched |-> <<>>]
  ELSE IF Len(matched) > 0 THEN [valid |-> TRUE, matched |-> matched]
  ELSE IF ~is_short_query /\ score > 60 THEN [valid |-> TRUE, matched |-> <<>>]
  ELSE [valid |-> FALSE, matched |-> <<>>]

\* the decision with the ceiling reached at 0.60 itself
GateDecision_CeilingInclusive(score, threshold, keywords, matched, is_short_query) ==
  IF score < threshold THEN [valid |-> FALSE, matched |-> <<>>]
  ELSE
    LET IsStrictTarget(k) == Lower(k) \in STRICT_TECH_KEYWORDS
        strict_targets == SelectSeq(keywords, IsStrictTarget)
        IsStrict(m) == m \in STRICT_TECH_KEYWORDS
        matched_strict == SelectSeq(matched, IsStrict)
    IN  IF Len(keywords) = 0 THEN [valid |-> TRUE, matched |-> <<>>]
        ELSE IF Len(strict_targets) > 0
        THEN (IF Len(matched_strict) > 0
              THEN [valid |-> TRUE, matched |-> matched]
              ELSE [valid |-> FALSE, matched |-> <<>>])
        ELSE IF Len(matched) > 0 THEN [valid |-> TRUE, matched |-> matched]
        ELSE IF ~is_short_query /\ score >= 60 THEN [valid |-> TRUE, matched |-> <<>>]
        ELSE [valid |-> FALSE, matched |-> <<>>]

\* the decision without the branch for short queries: a high score admits
\* a course in which no keyword was found
GateDecision_ScoreAdmitsShort(score, threshold, keywords, matched, is_short_query) ==
  IF score < threshold THEN [valid |-> FALSE, matched |-> <<>>]
  ELSE
    LET IsStrictTarget(k) == Lower(k) \in STRICT_TECH_KEYWORDS
        strict_targets == SelectSeq(keywords, IsStrictTarget)
        IsStrict(m) == m \in STRICT_TECH_KEYWORDS
        matched_strict == SelectSeq(matched, IsStrict)
    IN  IF Len(keywords) = 0 THEN [valid |-> TRUE, matched |-> <<>>]
        ELSE IF Len(strict_targets) > 0
        THEN (IF Len(matched_strict) > 0
              THEN [valid |-> TRUE, matched |-> matched]
              ELSE [valid |-> FALSE, matched |-> <<>>])
        ELSE IF Len(matched) > 0 THEN [valid |-> TRUE, matched |-> matched]
        ELSE IF score > 60 THEN [valid |-> TRUE, matched |-> <<>>]
        ELSE [valid |-> FALSE, matched |-> <<>>]

\* the decision of check_gating (lines 56-68 and 143-163) for a course in
\* which the keywords `matched` of the query's `keywords` were found
GateDecision(score, threshold, keywords, matched, is_short_query) ==
  IF score < threshold THEN [valid |-> FALSE, matched |-> <<>>]
  ELSE
    LET IsStrictTarget(k) == Lower(k) \in STRICT_TECH_KEYWORDS
        strict_targets == SelectSeq(keywords, IsStrictTarget)
        has_strict_target == Len(strict_targets) > 0
    IN  IF Len(keywords) = 0 THEN [valid |-> TRUE, matched |-> <<>>]
        ELSE
          LET IsStrict(m) == m \in STRICT_TECH_KEYWORDS
              matched_strict == SelectSeq(matched, IsStrict)
          IN  IF has_strict_target
              THEN (IF Len(matched_strict) > 0
                    THEN [valid |-> TRUE, matched |-> matched]
                    ELSE [valid |-> FALSE, matched |-> <<>>])
              ELSE IF is_short_query
              THEN (IF Len(matched) > 0
                    THEN [valid |-> TRUE, matched |-> matched]
                    ELSE [valid |-> FALSE, matched |-> <<>>])
              ELSE IF Len(matched) > 0 THEN [valid |-> TRUE, matched |-> matched]
              ELSE IF score > 60 THEN [valid |-> TRUE, matched |-> <<>>]
              ELSE [valid |-> FALSE, matched |-> <<>>]

\* check_gating returns (is_valid, matched keywords)
check_gating(course, score, normalized_query, threshold, is_short_query) ==
  LET keywords == extract_strong_keywords_regex(normalized_query)
  IN  GateDecision(score, threshold, keywords, MatchedKeywords(course, keywords),
                   is_short_query)

(***************************************************************************)
(* src/src/utils.py: normalize_query and is_arabic are imported by the     *)
(* pipeline (pipeline.py:9) but their code is not part of the sources;     *)
(* they follow section 4.1 of the specification.                           *)
(***************************************************************************)
\* Arabic technical terms and their English equivalents
ArabicTerms == <<[ar |-> "@~", en |-> "python"]>>

\* abbreviations and what they expand to (the abbreviation is kept)
StaticAbbreviations == <<[abbr |-> "ml", expansion |-> "ml machine learning"]>>

\* English articles and prepositions, Arabic filler words
NormalizerStopwords == {"a", "an", "the", "to", "in", "of", "for", "on", "with", "^$", "$^"}

\* presence of an Arabic-script code point
is_arabic(raw) == \E i \in 1..Len(raw) : Ch(raw, i) \in ArabicSet

RECURSIVE ReplaceAll(_, _, _)
\* str.replace(from, to)
ReplaceAll(s, from, to) ==
  IF Len(s) = 0 THEN ""
  ELSE IF OccursAt(s, from, 1)
       THEN to \o ReplaceAll(SubSeq(s, Len(from) + 1, Len(s)), from, to)
       ELSE Ch(s, 1) \o ReplaceAll(SubSeq(s, 2, Len(s)), from, to)

RECURSIVE TranslateArabic(_, _)
TranslateArabic(s, i) ==
  IF i > Len(ArabicTerms) THEN s
  ELSE TranslateArabic(ReplaceAll(s, ArabicTerms[i].ar, ArabicTerms[i].en), i + 1)

ExpandToken(t) ==
  IF \E i \in 1..Len(StaticAbbreviations) : StaticAbbreviations[i].abbr = t
  THEN StaticAbbreviations[CHOOSE i \in 1..Len(StaticAbbreviations) :
                             StaticAbbreviations[i].abbr = t].expansion
  ELSE t

ExpandAbbreviations(s) ==
  LET tokens == Split(s)
  IN  Join([i \in 1..Len(tokens) |-> ExpandToken(tokens[i])])

\* every character that is neither a word character nor whitespace becomes a space
StripPunctuation(s) ==
  LET Keep(c) == IF IsWordChar(c) \/ c = " " THEN c ELSE " "
  IN  ConcatRange([i \in 1..Len(s) |-> Keep(Ch(s, i))], 1, Len(s))

RemoveStopwords(s) ==
  LET Keep(t) == t \notin NormalizerStopwords
  IN  Join(SelectSeq(Split(s), Keep))

\* lowercase, translate, expand, strip punctuation, collapse whitespace,
\* remove stopwords
normalize_query(raw) ==
  RemoveStopwords(StripPunctuation(ExpandAbbreviations(TranslateArabic(Lower(raw), 1))))

(***************************************************************************)
(* src/src/ai/ranker.py                                                    *)
(***************************************************************************)
RECURSIVE MinScore(_)
MinScore(results) ==
  IF Len(results) = 1 THEN results[1].score
  ELSE LET m == MinScore(Tail(results))
       IN  IF results[1].score < m THEN results[1].score ELSE m

RECURSIVE MaxScore(_)
MaxScore(results) ==
  IF Len(results) = 1 THEN results[1].score
  ELSE LET m == MaxScore(Tail(results))
       IN  IF results[1].score > m THEN results[1].score ELSE m

\* the scale stretched over 10 steps instead of 9
RankOf_TenSteps(score, min_s, max_s) ==
  IF max_s = min_s THEN 5
  ELSE (((score - min_s) * 10) \div (max_s - min_s)) + 1

\* the scale measured from the maximum instead of the minimum
RankOf_FromMax(score, min_s, max_s) ==
  IF max_s = min_s THEN 5
  ELSE (((max_s - score) * 9) \div (max_s - min_s)) + 1

\* equal scores given the top of the scale instead of its midpoint
RankOf_EqualGetsTen(score, min_s, max_s) ==
  IF max_s = min_s THEN 10
  ELSE (((score - min_s) * 9) \div (max_s - min_s)) + 1

\* int((score - min_s) / (max_s - min_s) * 9) + 1, or 5 when all scores are equal
RankOf(score, min_s, max_s) ==
  IF max_s = min_s THEN 5
  ELSE (((score - min_s) * 9) \div (max_s - min_s)) + 1

normalize_rank_1_10(results) ==
  IF Len(results) = 0 THEN results
  ELSE LET min_s == MinScore(results)
           max_s == MaxScore(results)
       IN  [i \in 1..Len(results) |->
              [results[i] EXCEPT !.rank = RankOf(results[i].score, min_s, max_s)]]

(***************************************************************************)
(* Catalogs, queries and the scores the models can produce                 *)
(***************************************************************************)
\* number of rows of the large catalog (more rows than the rerank slice)
BigRows == 22
\* an index of at most this many rows gets every assignment of ScoreSet
MaxEnumRows == 3
\* the largest top_k a request asks for
MaxTopK == 25

\* the size of the slice handed to the reranker (valid_candidates[:20])
RERANK_SLICE == 20

Course(t, s, d, l, c) ==
  [title |-> t, skills |-> s, description |-> d, level |-> l, category |-> c]

CatalogA ==
  << Course("Python Basics", "Python|SQL", "Learn python programming.", "Beginner", "Programming"),
     Course("Intro to JavaScript", "JS|ASP.NET", NaN, "Beginner", "Programming"),
     Course("Team Leadership", "Management", "How to lead a big team", "Advanced", "Business") >>

CatalogB ==
  << Course("Machine Learning (ML)", "ML|Statistics", "Models that learn from data", "Advanced", "AI"),
     Course("Big Data Teams", "Hadoop", "lead a data team", "Intermediate", "Business") >>

CatalogBig ==
  [i \in 1..BigRows |->
     Course("Python " \o Ch(LowerChars, i), "Python", "learn python", 
            IF i % 2 = 0 THEN "Beginner" ELSE "Advanced", "Programming")]

Catalogs == {CatalogA, CatalogB, CatalogBig, <<>>}

Queries ==
  {"Python", "java", "Rust programming language", "How to lead a big team?",
   "advanced course", "potato farming", "@~ ^$", "ML", "python sql",
   "learn python programming", "C++", "python management"}

FilterSets ==
  {Nothing, Some([level |-> "Advanced", category |-> "Business"])}

TopKs == {2, MaxTopK}

\* similarity scores: below the relaxed threshold, between the relaxed and
\* the Arabic one, between the Arabic and the general one, above the general
\* one, above the 0.60 ceiling
ScoreSet == {20, 23, 30, 40, 70}

BigProfiles == 1..3

BigScore(p, idx) ==
  CASE p = 1 -> 70
    [] p = 2 -> 90 - idx
    [] OTHER -> IF idx < 10 THEN 70 ELSE 40

\* the similarity of the query to each row of the index
ScoreFunctions(ntotal) ==
  IF ntotal <= MaxEnumRows
  THEN [0..(ntotal - 1) -> ScoreSet]
  ELSE {[i \in 0..(ntotal - 1) |-> BigScore(p, i)] : p \in BigProfiles}

RerankProfiles == 1..3

\* the cross-encoder's score of (query, title); titles are distinct per row
RerankScore(p, idx) ==
  CASE p = 1 -> ((idx * 37) % 11) * 10 - 30
    [] p = 2 -> 50
    [] OTHER -> idx * 5 - 20

RECURSIVE InsertDesc(_, _)
\* insert x after every entry whose score is at least x.score
InsertDesc(sorted, x) ==
  IF Len(sorted) = 0 THEN <<x>>
  ELSE IF sorted[1].score >= x.score
       THEN <<sorted[1]>> \o InsertDesc(Tail(sorted), x)
       ELSE <<x>> \o sorted

RECURSIVE SortDescFrom(_, _, _)
SortDescFrom(s, i, acc) ==
  IF i > Len(s) THEN acc ELSE SortDescFrom(s, i + 1, InsertDesc(acc, s[i]))

\* list.sort(key=score, reverse=True): stable, descending
SortDesc(s) == SortDescFrom(s, 1, <<>>)

\* index.search(query_vector, k): the rows in descending order of score,
\* padded with the sentinel -1 up to k entries
IndexSearch(scores, ntotal, k) ==
  LET hits == SortDesc([i \in 1..ntotal |-> [idx |-> i - 1, score |-> scores[i - 1]]])
  IN  [i \in 1..k |-> IF i <= Len(hits) THEN hits[i] ELSE [idx |-> -1, score |-> 0]]

(***************************************************************************)
(* State                                                                   *)
(***************************************************************************)
VARIABLES
  env,         \* what is installed and on disk: libraries, data files, models
  dl_index,    \* DataLoader._index
  dl_courses_df, \* DataLoader._courses_df
  pipeline,    \* routes._pipeline: Nothing or the CourseRecommenderPipeline
  can_encode,  \* EmbeddingService.can_encode
  model,       \* EmbeddingService._model
  reranker,    \* EmbeddingService._reranker
  response,    \* Nothing, or the outcome of the request being answered
  conc,        \* the worker threads running get_pipeline at the same time
  recommender, \* the CourseRecommender of the running process (Nothing: no process)
  outputs,     \* the files of the cache directory outputs/
  answer,      \* Nothing, or the outcome of the last call on the CourseRecommender
  lib_call,    \* Nothing, or the library function being called with its arguments
  lib_result   \* Nothing, or what that call returned

\* the variables of the other views of the program, which the sequential
\* service leaves alone
\* the state of the CourseRecommender program (src/src/recommender.py)
legacy == <<recommender, outputs, answer>>

\* a call of one of the functions without state (filters, gate, report)
pure == <<lib_call, lib_result>>

aux == <<conc, legacy, pure>>

vars == <<env, dl_index, dl_courses_df, pipeline, can_encode, model, reranker, response,
          aux>>

\* no thread is inside get_pipeline
NoThreads == [pc |-> <<>>, loaded |-> <<>>, index_loads |-> 0, table_loads |-> 0,
              pipelines |-> 0, model_loads |-> 0]

MissingFile == [exists |-> FALSE, readable |-> FALSE]
CorruptFile == [exists |-> TRUE, readable |-> FALSE]
IndexFile(ntotal) == [exists |-> TRUE, readable |-> TRUE, ntotal |-> ntotal]
TableFile(rows) == [exists |-> TRUE, readable |-> TRUE, rows |-> rows]

\* the index file holds one vector per catalog row, or one row more
DataFiles ==
  {[faiss |-> IndexFile(Len(c) + extra), parquet |-> TableFile(c)] :
      c \in Catalogs, extra \in {0, 1}}
  \cup {[faiss |-> f, parquet |-> TableFile(CatalogB)] : f \in {MissingFile, CorruptFile}}
  \cup {[faiss |-> IndexFile(Len(CatalogB)), parquet |-> t] : t \in {MissingFile, CorruptFile}}
  \cup {[faiss |-> MissingFile, parquet |-> MissingFile]}

\* HAS_ML, and whether SentenceTransformer(...) and CrossEncoder(...) succeed
ModelSetups ==
  {[HAS_ML |-> FALSE, model_ok |-> FALSE, reranker_ok |-> FALSE],
   [HAS_ML |-> TRUE, model_ok |-> TRUE, reranker_ok |-> TRUE],
   [HAS_ML |-> TRUE, model_ok |-> TRUE, reranker_ok |-> FALSE],
   [HAS_ML |-> TRUE, model_ok |-> FALSE, reranker_ok |-> TRUE]}

Init ==
  /\ env \in [HAS_DATA_LIBS : BOOLEAN, files : DataFiles, ml : ModelSetups]
  /\ dl_index = Nothing
  /\ dl_courses_df = Nothing
  /\ pipeline = Nothing
  /\ can_encode = FALSE
  /\ model = Nothing
  /\ reranker = Nothing
  /\ response = Nothing
  /\ conc = NoThreads
  /\ recommender = Nothing
  /\ outputs = {}
  /\ answer = Nothing
  /\ lib_call = Nothing
  /\ lib_result = Nothing

(***************************************************************************)
(* src/src/data_loader.py                                                  *)
(***************************************************************************)
\* load_data handing back the index it has read when the table is missing
load_data_KeepsIndex(e, cur_index, cur_df) ==
  LET ret(i, d, ni, nd) == [index |-> i, courses_df |-> d, dl_index |-> ni, dl_courses_df |-> nd]
  IN  IF ~e.HAS_DATA_LIBS THEN ret(Nothing, Nothing, cur_index, cur_df)
      ELSE IF cur_index # Nothing /\ cur_df # Nothing THEN ret(cur_index, cur_df, cur_index, cur_df)
      ELSE IF ~e.files.faiss.exists THEN ret(Nothing, Nothing, cur_index, cur_df)
      ELSE IF ~e.files.faiss.readable THEN ret(Nothing, Nothing, cur_index, cur_df)
      ELSE LET idx == Some(e.files.faiss.ntotal)
           IN  IF ~e.files.parquet.exists THEN ret(idx, Nothing, idx, cur_df)
               ELSE IF ~e.files.parquet.readable THEN ret(Nothing, Nothing, idx, cur_df)
               ELSE ret(idx, Some(e.files.parquet.rows), idx, Some(e.files.parquet.rows))

\* DataLoader.load_data: the returned pair and the attributes it leaves
load_data(e, cur_index, cur_df) ==
  LET ret(i, d, ni, nd) == [index |-> i, courses_df |-> d, dl_index |-> ni, dl_courses_df |-> nd]
  IN  IF ~e.HAS_DATA_LIBS THEN ret(Nothing, Nothing, cur_index, cur_df)
      ELSE IF cur_index # Nothing /\ cur_df # Nothing THEN ret(cur_index, cur_df, cur_index, cur_df)
      ELSE IF ~e.files.faiss.exists THEN ret(Nothing, Nothing, cur_index, cur_df)
      ELSE IF ~e.files.faiss.readable THEN ret(Nothing, Nothing, cur_index, cur_df)
      ELSE LET idx == Some(e.files.faiss.ntotal)
           IN  IF ~e.files.parquet.exists THEN ret(Nothing, Nothing, idx, cur_df)
               ELSE IF ~e.files.parquet.readable THEN ret(Nothing, Nothing, idx, cur_df)
               ELSE ret(idx, Some(e.files.parquet.rows), idx, Some(e.files.parquet.rows))

(***************************************************************************)
(* src/src/ai/pipeline.py: CourseRecommenderPipeline.__init__              *)
(***************************************************************************)
\* fillna('').astype(str)
FillNa(v) == IF v = NaN THEN "" ELSE v

\* " ".join(titles + skills + descriptions).lower()
GlobalCorpusText(df) ==
  Lower(Join([i \in 1..Len(df) |-> FillNa(df[i].title)]
             \o [i \in 1..Len(df) |-> FillNa(df[i].skills)]
             \o [i \in 1..Len(df) |-> FillNa(df[i].description)]))

NewPipeline(loaded) ==
  [index |-> loaded.index,
   courses_df |-> loaded.courses_df,
   global_corpus_text |->
     IF loaded.courses_df # Nothing THEN GlobalCorpusText(Get(loaded.courses_df)) ELSE ""]

\* routes.get_pipeline: the first request constructs the pipeline, which
\* creates the EmbeddingService and loads the data
GetPipeline ==
  /\ pipeline = Nothing
  /\ LET loaded == load_data(env, dl_index, dl_courses_df)
     IN  /\ dl_index' = loaded.dl_index
         /\ dl_courses_df' = loaded.dl_courses_df
         /\ pipeline' = Some(NewPipeline(loaded))
  /\ can_encode' = env.ml.HAS_ML
  /\ UNCHANGED <<env, model, reranker, response, aux>>

(***************************************************************************)
(* src/src/ai/embeddings.py                                                *)
(***************************************************************************)
\* EmbeddingService.load_model, called by encode: the attributes after the
\* call and whether the load raised
load_model(ml, cur_model, cur_can_encode) ==
  IF ~ml.HAS_ML THEN [model |-> cur_model, can_encode |-> cur_can_encode, raised |-> FALSE]
  ELSE IF cur_model # Nothing
       THEN [model |-> cur_model, can_encode |-> cur_can_encode, raised |-> FALSE]
  ELSE IF ml.model_ok
       THEN [model |-> Some("SentenceTransformer"), can_encode |-> cur_can_encode, raised |-> FALSE]
  ELSE [model |-> cur_model, can_encode |-> FALSE, raised |-> TRUE]

\* EmbeddingService.load_reranker: the _reranker attribute after the call
load_reranker(ml, cur_reranker) ==
  IF ~ml.HAS_ML THEN cur_reranker
  ELSE IF cur_reranker # Nothing THEN cur_reranker
  ELSE IF ml.reranker_ok THEN Some("CrossEncoder")
  ELSE cur_reranker

\* EmbeddingService.rerank after load_reranker: zeros without a reranker,
\* else the cross-encoder's score of each (query, title) pair
rerank(rr, candidates, p) ==
  IF rr = Nothing
  THEN [i \in 1..Len(candidates) |-> 0]
  ELSE [i \in 1..Len(candidates) |-> RerankScore(p, candidates[i].idx)]

(***************************************************************************)
(* src/src/ai/pipeline.py: CourseRecommenderPipeline.recommend             *)
(***************************************************************************)
\* the existence check done only for a query that is one keyword
MissingCriticalKeywords_SingleOnly(norm_query, global_corpus_text) ==
  LET strict_kws == extract_strong_keywords_regex(norm_query)
      IsCritical(k) == Lower(k) \in STRICT_TECH_KEYWORDS /\ Len(strict_kws) = 1
      critical_kws == SelectSeq(strict_kws, IsCritical)
      Missing(k) == ~Contains(global_corpus_text, Lower(k))
  IN  SelectSeq(critical_kws, Missing)

\* the strict keywords of the query that are nowhere in the corpus text
MissingCriticalKeywords(norm_query, global_corpus_text) ==
  LET strict_kws == extract_strong_keywords_regex(norm_query)
      IsCritical(k) == Lower(k) \in STRICT_TECH_KEYWORDS
      critical_kws == SelectSeq(strict_kws, IsCritical)
      Missing(k) == ~Contains(global_corpus_text, Lower(k))
  IN  SelectSeq(critical_kws, Missing)

IsShortQuery(norm_query) == Len(Split(norm_query)) <= 2

\* the bars of the two languages exchanged
BaseThreshold_Exchanged(is_ar) ==
  IF is_ar THEN SEMANTIC_THRESHOLD_GENERAL ELSE SEMANTIC_THRESHOLD_ARABIC

\* lines 89-93: the lower bar for Arabic queries, the higher one otherwise
BaseThreshold(is_ar) ==
  IF is_ar THEN SEMANTIC_THRESHOLD_ARABIC ELSE SEMANTIC_THRESHOLD_GENERAL

\* the facts of the query with the language flag taken from the normalized
\* query
QueryFacts_FlagFromNormalized(pl, df, original_query, norm_query, keywords) ==
  [original_query |-> original_query,
   norm_query |-> norm_query,
   is_ar |-> is_arabic(norm_query),
   missing |-> MissingCriticalKeywords(norm_query, pl.global_corpus_text),
   is_short_query |-> IsShortQuery(norm_query),
   keywords |-> keywords,
   evidence |-> [i \in 1..Len(df) |-> MatchedKeywords(df[i], keywords)]]

\* lines 39-93: what recommend derives from the query alone.  check_gating
\* is a pure function of (course, score, query, threshold), so the keywords
\* of the query and the keywords found in each course are worked out here,
\* once per request, and the gate decides from them for every hit.
QueryFacts(pl, df, original_query, norm_query, keywords) ==
  [original_query |-> original_query,
   norm_query |-> norm_query,
   is_ar |-> is_arabic(original_query),
   missing |-> MissingCriticalKeywords(norm_query, pl.global_corpus_text),
   is_short_query |-> IsShortQuery(norm_query),
   keywords |-> keywords,
   evidence |-> [i \in 1..Len(df) |-> MatchedKeywords(df[i], keywords)]]

NormalizedQuery(pl, df, original_query, norm_query) ==
  QueryFacts(pl, df, original_query, norm_query, extract_strong_keywords_regex(norm_query))

QueryContext(pl, original_query) ==
  NormalizedQuery(pl, IF pl.courses_df = Nothing THEN <<>> ELSE Get(pl.courses_df),
                  original_query, normalize_query(original_query))

\* the level and category filters of the request let the course through
PassesFilters(course, filters) ==
  IF filters = Nothing THEN TRUE
  ELSE LET f == Get(filters)
       IN  /\ (f.level # None /\ f.level # "Any") => course.level = f.level
           /\ (f.category # None /\ f.category # "Any") => course.category = f.category

Candidate(idx, course, score, matched) ==
  [idx |-> idx, title |-> course.title, score |-> score, category |-> course.category,
   level |-> course.level, matched_keywords |-> matched, rank |-> 0]

\* the gate's verdict on one search hit
GateHit(hit, q, threshold_val) ==
  GateDecision(hit.score, threshold_val, q.keywords, q.evidence[hit.idx + 1],
               q.is_short_query)

\* the pass at the relaxed threshold keeping only the hits that the higher
\* thresholds turn away
KeepsHit_OnlyNewlyAdmitted(df, hit, filters, q, threshold_val) ==
  /\ hit.idx # -1
  /\ PassesFilters(df[hit.idx + 1], filters)
  /\ GateHit(hit, q, threshold_val).valid
  /\ threshold_val = SEMANTIC_THRESHOLD_RELAXED => hit.score < SEMANTIC_THRESHOLD_ARABIC

\* one turn of the loop of filter_candidates keeps the hit: it is no
\* sentinel, the course passes the request's filters and the gate accepts it
KeepsHit(df, hit, filters, q, threshold_val) ==
  /\ hit.idx # -1
  /\ PassesFilters(df[hit.idx + 1], filters)
  /\ GateHit(hit, q, threshold_val).valid

\* filter_candidates(threshold_val): the gated search hits in search order,
\* or the IndexError of courses_df.iloc[idx] for a row position outside the
\* catalog table
filter_candidates(df, hits, filters, q, threshold_val) ==
  IF \E i \in 1..Len(hits) : hits[i].idx >= Len(df)
  THEN [raised |-> TRUE, candidates |-> <<>>]
  ELSE LET Keeps(hit) == KeepsHit(df, hit, filters, q, threshold_val)
           kept == SelectSeq(hits, Keeps)
       IN  [raised |-> FALSE,
            candidates |->
              [i \in 1..Len(kept) |->
                 Candidate(kept[i].idx, df[kept[i].idx + 1], kept[i].score,
                           GateHit(kept[i], q, threshold_val).matched)]]

\* relaxation on any low count, short query or not
NeedsRelaxation_AnyQuery(n, is_short) == n < 3

\* the condition under which the gating is repeated at the relaxed threshold
NeedsRelaxation(n, is_short) == n < 3 /\ ~is_short

RECURSIVE FallbackFrom(_, _, _, _)
FallbackFrom(df, i, q, acc) ==
  IF i > Len(df) THEN acc
  ELSE
    LET g == GateDecision(100, 0, q.keywords, q.evidence[i], q.is_short_query)
        acc2 == IF g.valid /\ Len(g.matched) > 0
                THEN Append(acc, Candidate(i - 1, df[i], 50, g.matched))
                ELSE acc
    IN  IF Len(acc2) >= TOP_K_Candidates THEN acc2
        ELSE FallbackFrom(df, i + 1, q, acc2)

\* the keyword fallback path: every row gated with the dummy score 1.0 at
\* threshold 0.0 and kept, with score 0.5, when some keyword matched
KeywordFallback(df, q) == FallbackFrom(df, 1, q, <<>>)

Take(s, n) == SubSeq(s, 1, IF n < Len(s) THEN n ELSE Len(s))
Drop(s, n) == SubSeq(s, n + 1, Len(s))

\* the rerank step sorting the whole list, tail included
RerankStep_SortsAll(valid_candidates, rerank_scores) ==
  LET top_slice == Take(valid_candidates, RERANK_SLICE)
      tail_slice == Drop(valid_candidates, RERANK_SLICE)
      rescored == [i \in 1..Len(top_slice) |->
                     [top_slice[i] EXCEPT !.score = rerank_scores[i]]]
  IN  SortDesc(rescored \o tail_slice)

\* step 5: the first 20 candidates get the reranker's scores and are
\* sorted by them, the others follow unchanged
RerankStep(valid_candidates, rerank_scores) ==
  LET top_slice == Take(valid_candidates, RERANK_SLICE)
      tail_slice == Drop(valid_candidates, RERANK_SLICE)
      rescored == [i \in 1..Len(top_slice) |->
                     [top_slice[i] EXCEPT !.score = rerank_scores[i]]]
  IN  SortDesc(rescored) \o tail_slice

\* what the request went through, kept with the response for the properties
\* (no field of the program): the path taken, the search hits, the
\* thresholds at which filter_candidates ran, the candidates of the first
\* gating pass, and valid_candidates before and after the rerank step
NoTrace(request) ==
  [request |-> request, norm_query |-> "", is_short |-> FALSE, path |-> "none",
   hits |-> <<>>, gate_log |-> <<>>, first_pass |-> <<>>, gated |-> <<>>,
   reranked |-> <<>>, rerank_ran |-> FALSE]

Raised(exception, trace) ==
  [outcome |-> "raise", exception |-> exception, results |-> <<>>, total_found |-> 0,
   debug_info |-> [raised |-> exception], trace |-> trace]

Returned(results, debug_info, trace) ==
  [outcome |-> "ok", exception |-> None, results |-> results, total_found |-> Len(results),
   debug_info |-> debug_info, trace |-> trace]

\* what the retrieval and gating of a request come to: the exception raised
\* or the valid candidates, and the attributes of the EmbeddingService
GateOutcome(exception, valid, trace, m, ce) ==
  [exception |-> exception, valid |-> valid, trace |-> trace, model |-> m, can_encode |-> ce]

\* lines 184-189: with fewer than 3 candidates for a query that is not short
\* the call filter_candidates(SEMANTIC_THRESHOLD_RELAXED) is evaluated, and
\* raises `unbound`: SEMANTIC_THRESHOLD_RELAXED is no name of the module
\* (NameError), and on the fallback path filter_candidates itself was never
\* bound (UnboundLocalError)
AfterGating(candidates, is_short, unbound, trace, m, ce) ==
  IF Len(candidates) < 3 /\ ~is_short
  THEN GateOutcome(unbound, <<>>, [trace EXCEPT !.gated = candidates], m, ce)
  ELSE GateOutcome(None, candidates, [trace EXCEPT !.gated = candidates], m, ce)

\* line 149: the candidates of the pass at the relaxed threshold
AfterRelaxedPass(second, is_short, trace, m, ce) ==
  IF second.raised
  THEN GateOutcome("IndexError", <<>>, trace, m, ce)
  ELSE AfterGating(second.candidates, is_short, "NameError", trace, m, ce)

\* lines 146-149: the candidates of the pass at the primary threshold, and
\* the pass at the relaxed threshold when they are too few
AfterFirstPass(first, df, hits, request, q, current_threshold, trace, m, ce) ==
  IF first.raised
  THEN GateOutcome("IndexError", <<>>, [trace EXCEPT !.gate_log = <<current_threshold>>], m, ce)
  ELSE IF NeedsRelaxation(Len(first.candidates), q.is_short_query)
  THEN AfterRelaxedPass(
         filter_candidates(df, hits, request.filters, q, SEMANTIC_THRESHOLD_RELAXED),
         q.is_short_query,
         [trace EXCEPT !.gate_log = <<current_threshold, SEMANTIC_THRESHOLD_RELAXED>>,
                       !.first_pass = first.candidates],
         m, ce)
  ELSE AfterGating(first.candidates, q.is_short_query, "NameError",
                   [trace EXCEPT !.gate_log = <<current_threshold>>,
                                 !.first_pass = first.candidates],
                   m, ce)

\* lines 102-146: the hits of the search go through filter_candidates
AfterSearch(hits, df, request, q, current_threshold, trace, m, ce) ==
  LET IsRow(hit) == hit.idx # -1
  IN  AfterFirstPass(filter_candidates(df, hits, request.filters, q, current_threshold),
                     df, hits, request, q, current_threshold,
                     [trace EXCEPT !.hits = SelectSeq(hits, IsRow)], m, ce)

\* lines 99-102: encode loads the model (and raises if that fails, or when
\* no model is there to encode with), then the index is searched
SemanticPath(lm, pl, request, q, current_threshold, scores, trace) ==
  IF lm.raised THEN GateOutcome("ModelLoadError", <<>>, trace, lm.model, lm.can_encode)
  ELSE IF lm.model = Nothing
  THEN GateOutcome("AttributeError", <<>>, trace, lm.model, lm.can_encode)
  ELSE AfterSearch(IndexSearch(scores, Get(pl.index), TOP_K_Candidates),
                   Get(pl.courses_df), request, q, current_threshold, trace,
                   lm.model, lm.can_encode)

\* lines 151-189: the candidates of the keyword fallback
FallbackPath(found, is_short, trace, m, ce) ==
  AfterGating(found, is_short, "UnboundLocalError",
              [trace EXCEPT !.first_pass = found], m, ce)

\* lines 99-189: the candidates that survive gating, or the exception raised
\* on the way
GateStage(pl, ml, cur_model, cur_can_encode, request, q, current_threshold, scores) ==
  IF cur_can_encode
  THEN SemanticPath(load_model(ml, cur_model, cur_can_encode), pl, request, q,
                    current_threshold, scores,
                    [NoTrace(request) EXCEPT !.norm_query = q.norm_query,
                                             !.is_short = q.is_short_query,
                                             !.path = "semantic"])
  ELSE FallbackPath(KeywordFallback(Get(pl.courses_df), q), q.is_short_query,
                    [NoTrace(request) EXCEPT !.norm_query = q.norm_query,
                                             !.is_short = q.is_short_query,
                                             !.path = "fallback"],
                    cur_model, cur_can_encode)

\* what recommend hands back: the response (or exception) and the
\* attributes of the EmbeddingService after the call
Outcome(resp, m, ce, rr) ==
  [response |-> resp, model |-> m, can_encode |-> ce, reranker |-> rr]

\* line 192: request.enable_reranking and len(valid_candidates) > 1
DoRerank(request, valid) == request.enable_reranking /\ Len(valid) > 1

\* lines 191-204: the candidates after the optional rerank step
RerankStage(valid, do_rerank, rr, rp) ==
  IF do_rerank
  THEN RerankStep(valid, rerank(rr, Take(valid, RERANK_SLICE), rp))
  ELSE valid

\* lines 206-238: the first top_k candidates, ranked, and the debug info
Respond(g, valid_candidates, do_rerank, rr, request, q, current_threshold) ==
  Outcome(Returned(normalize_rank_1_10(Take(valid_candidates, request.top_k)),
                   [original_query |-> q.original_query,
                    normalized_query |-> q.norm_query,
                    is_short_query |-> q.is_short_query,
                    threshold_used |-> current_threshold],
                   [g.trace EXCEPT !.reranked = valid_candidates,
                                   !.rerank_ran = do_rerank]),
          g.model, g.can_encode, rr)

\* lines 191-238, with the reranker as rerank's load_reranker leaves it
Rerank(g, do_rerank, rr, request, q, current_threshold, rp) ==
  Respond(g, RerankStage(g.valid, do_rerank, rr, rp), do_rerank, rr, request, q,
          current_threshold)

\* lines 99-238: an exception of the retrieval leaves recommend, else the
\* candidates are reranked and returned
AfterGate(g, ml, cur_reranker, request, q, current_threshold, rp) ==
  IF g.exception # None
  THEN Outcome(Raised(g.exception, g.trace), g.model, g.can_encode, cur_reranker)
  ELSE Rerank(g, DoRerank(request, g.valid),
              IF DoRerank(request, g.valid)
              THEN load_reranker(ml, cur_reranker) ELSE cur_reranker,
              request, q, current_threshold, rp)

\* CourseRecommenderPipeline.recommend: the response (or exception) and the
\* attributes of the EmbeddingService after the call
recommend(pl, ml, cur_model, cur_can_encode, cur_reranker, request, q, scores, rp) ==
  IF pl.index = Nothing \/ pl.courses_df = Nothing
  THEN Outcome(Returned(<<>>, [error |-> "Index missing"], NoTrace(request)),
               cur_model, cur_can_encode, cur_reranker)
  ELSE IF Len(q.missing) > 0
  THEN Outcome(Returned(<<>>, [blocked_reason |-> q.missing[1]],
                        [NoTrace(request) EXCEPT !.norm_query = q.norm_query]),
               cur_model, cur_can_encode, cur_reranker)
  ELSE AfterGate(GateStage(pl, ml, cur_model, cur_can_encode, request, q,
                           BaseThreshold(q.is_ar), scores),
                 ml, cur_reranker, request, q, BaseThreshold(q.is_ar), rp)

\* POST /recommender/search: one request is answered by recommend.  The
\* similarity scores and the cross-encoder's scores are inputs of the models.
Recommend ==
  /\ pipeline # Nothing
  /\ response = Nothing
  /\ \E query \in Queries : \E q \in {QueryContext(Get(pipeline), query)} :
       LET pl == Get(pipeline)
           ntotal == IF pl.index = Nothing THEN 0 ELSE Get(pl.index)
           will_search == /\ pl.index # Nothing
                          /\ pl.courses_df # Nothing
                          /\ can_encode
                          /\ Len(q.missing) = 0
           score_choices == IF will_search
                            THEN ScoreFunctions(ntotal)
                            ELSE {[i \in 0..(ntotal - 1) |-> 0]}
       IN  \E top_k \in TopKs, filters \in FilterSets, enable_reranking \in BOOLEAN :
             LET request == [query |-> query, top_k |-> top_k, filters |-> filters,
                             enable_reranking |-> enable_reranking]
                 rerank_choices == IF enable_reranking
                                      /\ load_reranker(env.ml, reranker) # Nothing
                                   THEN RerankProfiles
                                   ELSE {1}
             IN  \E scores \in score_choices, rp \in rerank_choices :
                   \E r \in {recommend(pl, env.ml, model, can_encode, reranker, request,
                                        q, scores, rp)} :
                       /\ response' = Some(r.response)
                       /\ model' = r.model
                       /\ can_encode' = r.can_encode
                       /\ reranker' = r.reranker
  /\ UNCHANGED <<env, dl_index, dl_courses_df, pipeline, aux>>

\* the route hands the response (or the error) to the caller
Deliver ==
  /\ response # Nothing
  /\ response' = Nothing
  /\ UNCHANGED <<env, dl_index, dl_courses_df, pipeline, can_encode, model, reranker, aux>>

Next == GetPipeline \/ Recommend \/ Deliver

Spec == Init /\ [][Next]_vars

(***************************************************************************)
(* Concurrent first requests.  FastAPI runs the dependency get_pipeline    *)
(* (a plain def, routes.py:21) in a worker thread per request, and the     *)
(* handler semantic_search (async def, routes.py:32) on the event loop,    *)
(* one request at a time.  No lock guards _pipeline, DataLoader._index or  *)
(* DataLoader._courses_df.                                                 *)
(***************************************************************************)
\* how many requests arrive together
NThreads == 2
Threads == 1..NThreads

NoneLoaded == [index |-> Nothing, courses_df |-> Nothing]

ConcInit ==
  /\ env \in [HAS_DATA_LIBS : BOOLEAN, files : DataFiles, ml : ModelSetups]
  /\ dl_index = Nothing
  /\ dl_courses_df = Nothing
  /\ pipeline = Nothing
  /\ can_encode = FALSE
  /\ model = Nothing
  /\ reranker = Nothing
  /\ response = Nothing
  /\ conc = [NoThreads EXCEPT !.pc = [t \in Threads |-> "get_pipeline"],
                              !.loaded = [t \in Threads |-> NoneLoaded]]
  /\ recommender = Nothing
  /\ outputs = {}
  /\ answer = Nothing
  /\ lib_call = Nothing
  /\ lib_result = Nothing

\* routes.py:23: `if _pipeline is None`, else the pipeline there is returned
CheckPipeline(t) ==
  /\ conc.pc[t] = "get_pipeline"
  /\ conc' = [conc EXCEPT !.pc[t] = IF pipeline = Nothing THEN "load_data" ELSE "serve"]
  /\ UNCHANGED <<env, dl_index, dl_courses_df, pipeline, can_encode, model, reranker,
                 response, legacy, pure>>

\* data_loader.py:27-40: load_data up to faiss.read_index, which sets _index
ReadIndex(t) ==
  /\ conc.pc[t] = "load_data"
  /\ IF ~env.HAS_DATA_LIBS
     THEN /\ conc' = [conc EXCEPT !.pc[t] = "assign", !.loaded[t] = NoneLoaded]
          /\ UNCHANGED dl_index
     ELSE IF dl_index # Nothing /\ dl_courses_df # Nothing
     THEN /\ conc' = [conc EXCEPT !.pc[t] = "assign",
                                  !.loaded[t] = [index |-> dl_index,
                                                 courses_df |-> dl_courses_df]]
          /\ UNCHANGED dl_index
     ELSE IF ~env.files.faiss.exists \/ ~env.files.faiss.readable
     THEN /\ conc' = [conc EXCEPT !.pc[t] = "assign", !.loaded[t] = NoneLoaded]
          /\ UNCHANGED dl_index
     ELSE /\ dl_index' = Some(env.files.faiss.ntotal)
          /\ conc' = [conc EXCEPT !.pc[t] = "read_parquet",
                                  !.index_loads = conc.index_loads + 1]
  /\ UNCHANGED <<env, dl_courses_df, pipeline, can_encode, model, reranker, response, legacy, pure>>

\* data_loader.py:42-54: the catalog table is read into _courses_df and the
\* two attributes are returned
ReadParquet(t) ==
  /\ conc.pc[t] = "read_parquet"
  /\ IF ~env.files.parquet.exists \/ ~env.files.parquet.readable
     THEN /\ conc' = [conc EXCEPT !.pc[t] = "assign", !.loaded[t] = NoneLoaded]
          /\ UNCHANGED dl_courses_df
     ELSE /\ dl_courses_df' = Some(env.files.parquet.rows)
          /\ conc' = [conc EXCEPT !.pc[t] = "assign",
                                  !.loaded[t] = [index |-> dl_index,
                                                 courses_df |-> Some(env.files.parquet.rows)],
                                  !.table_loads = conc.table_loads + 1]
  /\ UNCHANGED <<env, dl_index, pipeline, can_encode, model, reranker, response, legacy, pure>>

\* routes.py:25: _pipeline = CourseRecommenderPipeline(), built from what
\* load_data returned to this thread
AssignPipeline(t) ==
  /\ conc.pc[t] = "assign"
  /\ pipeline' = Some(NewPipeline(conc.loaded[t]))
  /\ can_encode' = env.ml.HAS_ML
  /\ conc' = [conc EXCEPT !.pc[t] = "serve", !.pipelines = conc.pipelines + 1]
  /\ UNCHANGED <<env, dl_index, dl_courses_df, model, reranker, response, legacy, pure>>

\* routes.py:42: the handler runs recommend on the event loop; encode loads
\* the embedding model when none is there (embeddings.py:31-34)
Serve(t) ==
  /\ conc.pc[t] = "serve"
  /\ IF pipeline # Nothing /\ Get(pipeline).index # Nothing
        /\ Get(pipeline).courses_df # Nothing /\ can_encode
     THEN /\ model' = load_model(env.ml, model, can_encode).model
          /\ can_encode' = load_model(env.ml, model, can_encode).can_encode
          /\ conc' = [conc EXCEPT
                        !.pc[t] = "done",
                        !.model_loads =
                          IF load_model(env.ml, model, can_encode).model # model
                          THEN conc.model_loads + 1 ELSE conc.model_loads]
     ELSE /\ conc' = [conc EXCEPT !.pc[t] = "done"]
          /\ UNCHANGED <<model, can_encode>>
  /\ UNCHANGED <<env, dl_index, dl_courses_df, pipeline, reranker, response, legacy, pure>>

ConcNext ==
  \E t \in Threads :
    \/ CheckPipeline(t)
    \/ ReadIndex(t)
    \/ ReadParquet(t)
    \/ AssignPipeline(t)
    \/ Serve(t)

ConcSpec == ConcInit /\ [][ConcNext]_vars

(***************************************************************************)
(* src/src/utils.py: the abbreviation map mined from the catalog and the   *)
(* expansion of queries and course texts with it.  The map is a dict,      *)
(* written as the sequence of its (abbr, expansion) entries in insertion   *)
(* order.                                                                  *)
(***************************************************************************)
\* the character class [A-Z0-9]
AbbrCharSet == UpperSet \cup CharSet(DigitChars)
\* clean(text): re.sub(r'[^a-zA-Z0-9\s]', '', str(text).lower())
clean(text) ==
  LET Keep(c) == IF c \in CharSet(LowerChars) \cup AbbrCharSet \/ c = " " THEN c ELSE ""
  IN  ConcatRange([i \in 1..Len(text) |-> Keep(LowerChar(Ch(text, i)))], 1, Len(text))

\* re.sub(r'\W+', '', token)
StripNonWord(token) ==
  LET Keep(c) == IF IsWordChar(c) THEN c ELSE ""
  IN  ConcatRange([i \in 1..Len(token) |-> Keep(Ch(token, i))], 1, Len(token))

\* str.strip()
Strip(s) ==
  LET inked == {i \in 1..Len(s) : Ch(s, i) # " "}
  IN  IF inked = {} THEN ""
      ELSE SubSeq(s, CHOOSE i \in inked : \A j \in inked : i <= j,
                     CHOOSE i \in inked : \A j \in inked : i >= j)

\* str.isupper(): a cased character is there and none is lowercase
isupper(s) ==
  /\ \E i \in 1..Len(s) : Ch(s, i) \in UpperSet
  /\ \A i \in 1..Len(s) : Ch(s, i) \notin CharSet(LowerChars)

\* re.split(r'[|;,]', str(skills))
SplitSkills(s) ==
  LET IsSeparator(p) == Ch(s, p) \in {"|", ";", ","}
  IN  PiecesBetween(s, SelectSeq([p \in 1..Len(s) |-> p], IsSeparator))

\* `key in abbr_map`
HasAbbr(abbr_map, key) == \E i \in 1..Len(abbr_map) : abbr_map[i].abbr = key

\* abbr_map[key]
Expansion(abbr_map, key) ==
  abbr_map[CHOOSE i \in 1..Len(abbr_map) : abbr_map[i].abbr = key].expansion

\* abbr_map[key] = value
SetAbbr(abbr_map, key, value) ==
  IF HasAbbr(abbr_map, key)
  THEN [i \in 1..Len(abbr_map) |->
          IF abbr_map[i].abbr = key THEN [abbr |-> key, expansion |-> value]
          ELSE abbr_map[i]]
  ELSE Append(abbr_map, [abbr |-> key, expansion |-> value])

\* the number of characters between the parentheses of a match of
\* \((?P<abbr>[A-Z0-9]{2,6})\) that starts at position p, 0 without a match
AbbrLenAt(text, p) ==
  LET Fits(n) == /\ p + n + 1 <= Len(text)
                 /\ \A j \in 1..n : Ch(text, p + j) \in AbbrCharSet
                 /\ Ch(text, p + n + 1) = ")"
  IN  IF Ch(text, p) = "(" /\ \E n \in 2..6 : Fits(n)
      THEN CHOOSE n \in 2..6 : Fits(n)
      ELSE 0

\* lines 186-207: the match "(ABBR)" at position p enters the map when the
\* len(abbr) words before it have the letters of abbr as their initials
MineMatch(text, p, n, abbr_map) ==
  LET abbr == Lower(SubSeq(text, p + 1, p + n))
      words == Split(SubSeq(text, 1, p - 1))
  IN  IF Len(words) < n THEN abbr_map
      ELSE LET last == SubSeq(words, Len(words) - n + 1, Len(words))
               initials == Lower(ConcatRange([i \in 1..n |-> Ch(last[i], 1)], 1, n))
           IN  IF initials = abbr
               THEN SetAbbr(abbr_map, abbr, clean(Join(last)) \o " " \o abbr)
               ELSE abbr_map

RECURSIVE MineMatches(_, _, _, _)
MineMatches(text, starts, k, abbr_map) ==
  IF k > Len(starts) THEN abbr_map
  ELSE MineMatches(text, starts, k + 1,
                   MineMatch(text, starts[k], AbbrLenAt(text, starts[k]), abbr_map))

\* lines 184-207: pattern.finditer(text), match by match (matches start
\* with "(" and hold none inside, so no two overlap)
MineText(text, abbr_map) ==
  LET Matches(p) == AbbrLenAt(text, p) # 0
  IN  MineMatches(text, SelectSeq([p \in 1..Len(text) |-> p], Matches), 1, abbr_map)

RECURSIVE MineColumn(_, _, _)
\* lines 183-207: the texts of one column, row by row
MineColumn(texts, i, abbr_map) ==
  IF i > Len(texts) THEN abbr_map
  ELSE MineColumn(texts, i + 1, MineText(texts[i], abbr_map))

\* lines 217-224: an all-uppercase skill of 2 to 8 characters that has no
\* entry yet gets its letters spelled out
MineSkill(token, abbr_map) ==
  IF isupper(token) /\ Len(token) >= 2 /\ Len(token) <= 8
       /\ ~HasAbbr(abbr_map, Lower(token))
  THEN Append(abbr_map,
              [abbr |-> Lower(token),
               expansion |-> Lower(token) \o " "
                             \o Join([i \in 1..Len(token) |-> LowerChar(Ch(token, i))])])
  ELSE abbr_map

RECURSIVE MineSkillTokens(_, _, _)
MineSkillTokens(tokens, j, abbr_map) ==
  IF j > Len(tokens) THEN abbr_map
  ELSE MineSkillTokens(tokens, j + 1, MineSkill(Strip(tokens[j]), abbr_map))

RECURSIVE MineSkills(_, _, _)
\* lines 212-224: the skills of every row
MineSkills(skills, i, abbr_map) ==
  IF i > Len(skills) THEN abbr_map
  ELSE MineSkills(skills, i + 1, MineSkillTokens(SplitSkills(skills[i]), 1, abbr_map))

\* build_abbreviation_map(df): the titles, then the descriptions, then the
\* skills
build_abbreviation_map(df) ==
  MineSkills([i \in 1..Len(df) |-> df[i].skills], 1,
    MineColumn([i \in 1..Len(df) |-> df[i].description], 1,
      MineColumn([i \in 1..Len(df) |-> df[i].title], 1, <<>>)))

\* expand_query(query, abbr_map): a token whose word characters are a key
\* of the map gives way to the entry, any other token stays as written
expand_query(query, abbr_map) ==
  LET tokens == Split(Lower(query))
      Expanded(token) == IF HasAbbr(abbr_map, StripNonWord(token))
                         THEN Expansion(abbr_map, StripNonWord(token))
                         ELSE token
  IN  Join([i \in 1..Len(tokens) |-> Expanded(tokens[i])])

\* format_course_text(row, abbr_map): an empty map leaves the text as it is
format_course_text(row, abbr_map) ==
  IF Len(abbr_map) > 0
  THEN expand_query(row.title \o ". Skills: " \o row.skills \o ". " \o row.description,
                    abbr_map)
  ELSE row.title \o ". Skills: " \o row.skills \o ". " \o row.description

\* validate_and_clean_dataset(df) on a table that has every required
\* column and no missing value: the levels are normalized (normalize_level)
\* and the commas of the skills become "|" (clean_skills); the durations
\* are not part of the model
validate_and_clean_dataset(df) ==
  LET normalize_level(val) ==
        IF \E x \in {"beg", "jun", "intro", "start"} : Contains(Lower(val), x)
        THEN "Beginner"
        ELSE IF \E x \in {"adv", "exp", "sen", "deep", "mast"} : Contains(Lower(val), x)
        THEN "Advanced"
        ELSE "Intermediate"
      clean_skills(val) ==
        ConcatRange([i \in 1..Len(val) |-> IF Ch(val, i) = "," THEN "|" ELSE Ch(val, i)],
                    1, Len(val))
  IN  [i \in 1..Len(df) |->
         [df[i] EXCEPT !.level = normalize_level(df[i].level),
                       !.skills = clean_skills(df[i].skills)]]

\* get_dataset_hash(df): the MD5 of the content, taken as free of
\* collisions, stands for the content
get_dataset_hash(df) == df

(***************************************************************************)
(* src/src/recommender.py: CourseRecommender, which caches the embeddings  *)
(* and the abbreviation map of a catalog in outputs/ under the hash of     *)
(* the catalog.  A table is its rows and, once _compute_embeddings has     *)
(* run, the column combined_text.  The embeddings are written as the texts *)
(* they encode; the cosine similarities of a query to them are an input    *)
(* of the encoder.                                                         *)
(***************************************************************************)
\* the default of the parameter similarity_threshold
similarity_threshold == 25

fallback_data ==
  << Course("Python for Beginners", "Python, Basic Syntax, Loops",
            "Learn Python programming from scratch.", "Beginner", "Programming"),
     Course("Advanced Machine Learning", "Deep Learning, Neural Networks, TensorFlow, NLP",
            "Master advanced ML concepts and frameworks including Natural Language Processing (NLP).",
            "Advanced", "Data Science"),
     Course("Web Development Bootcamp", "HTML, CSS, JavaScript, React",
            "Complete guide to modern web development.", "Intermediate", "Web Development"),
     Course("Data Analysis with Pandas", "Pandas, NumPy, Data Cleaning",
            "Analyze real-world data using Python libraries.", "Intermediate", "Data Science"),
     Course("Introduction to SQL", "SQL, Database Design, Querying",
            "Learn to manage and query relational databases.", "Beginner", "Database") >>

\* the catalog of src/test_full_abbr.py
CatalogNLP ==
  << Course("Natural Language Processing (NLP)", "Text|Bert", "Learn NLP basics.",
            "Advanced", "AI"),
     Course("Machine Learning", "Python|Scikit", "Intro to ML.", "Beginner", "AI") >>

\* a catalog with skills written in capitals and with punctuation
CatalogSkills ==
  << Course("Machine Learning (ML)", "ML|Python", "Models that learn from data",
            "Advanced", "AI"),
     Course("Systems Programming", "C++|SQL", "Write fast code", "Intermediate",
            "Programming") >>

\* what a path given to load_courses holds: a catalog, or no file
LegacySources == {Some(CatalogNLP), Some(CatalogSkills), Nothing}

LegacyQueries == {"NLP", "ML", "C++", "python", ""}

LegacyTopKs == {1, 30}

PreFilterSets == {Nothing, Some([level |-> "Advanced", category |-> None])}

\* the similarity of the query to the embedding of each row: below the
\* threshold, above it, far above it
Similarities(n) ==
  IF n <= MaxEnumRows - 1
  THEN [1..n -> {20, 30, 60}]
  ELSE {[i \in 1..n |-> 20], [i \in 1..n |-> 28 + i],
        [i \in 1..n |-> IF i = 2 THEN 60 ELSE 20]}

\* CourseRecommender.__init__ (loaded_from is no attribute of the object:
\* it records which branch of load_courses filled it)
CourseRecommender_init ==
  [model |-> Nothing, courses_df |-> Nothing, embeddings |-> Nothing, abbr_map |-> <<>>,
   dataset_hash |-> Nothing, loaded_from |-> "none"]

\* _initialize_model: SentenceTransformer(model_name) when no model is there
\* and the library is installed; the constructor can raise
initialize_model(r, ml) ==
  IF r.model = Nothing /\ ml.HAS_ML
  THEN IF ml.model_ok
       THEN [raised |-> FALSE, rec |-> [r EXCEPT !.model = Some("SentenceTransformer")]]
       ELSE [raised |-> TRUE, rec |-> r]
  ELSE [raised |-> FALSE, rec |-> r]

\* _compute_embeddings: the column combined_text is set to
\* format_course_text of each row, the model is initialized, and with a
\* model the combined texts are encoded
compute_embeddings(r, ml) ==
  IF r.courses_df = Nothing \/ Len(Get(r.courses_df).rows) = 0
  THEN [raised |-> FALSE, rec |-> r]
  ELSE LET rows == Get(r.courses_df).rows
           init == initialize_model(
                     [r EXCEPT !.courses_df =
                        Some([rows |-> rows,
                              combined_text |->
                                Some([i \in 1..Len(rows) |->
                                        format_course_text(rows[i], r.abbr_map)])])],
                     ml)
       IN  IF init.raised \/ init.rec.model = Nothing THEN init
           ELSE [init EXCEPT !.rec.embeddings =
                               Some(Get(Get(init.rec.courses_df).combined_text))]

CacheFile(files, kind, hash) == {f \in files : f.kind = kind /\ f.hash = hash}

\* a file of outputs/ written, replacing the one of that name
Written(files, kind, hash, content) ==
  (files \ CacheFile(files, kind, hash))
    \cup {[kind |-> kind, hash |-> hash, content |-> content]}

\* lines 138-148: the embeddings (when there are any), the map and the
\* cleaned table are saved under the hash
Saved(files, r) ==
  Written(Written(IF r.embeddings # Nothing
                  THEN Written(files, "embeddings", Get(r.dataset_hash), Get(r.embeddings))
                  ELSE files,
                  "abbr_map", Get(r.dataset_hash), r.abbr_map),
          "courses", Get(r.dataset_hash), Get(r.courses_df))

LoadOutcome(raised, r, files) == [raised |-> raised, rec |-> r, files |-> files]

\* lines 150-155: any exception of the try block leads to the fallback
\* data; an exception of _compute_embeddings in here leaves load_courses
LoadFallback(r, files, ml) ==
  LET comp == compute_embeddings(
                [r EXCEPT !.courses_df = Some([rows |-> validate_and_clean_dataset(fallback_data),
                                           combined_text |-> Nothing]),
                          !.abbr_map = build_abbreviation_map(
                                         validate_and_clean_dataset(fallback_data)),
                          !.loaded_from = "fallback"], ml)
  IN  LoadOutcome(comp.raised, comp.rec, files)

\* lines 111-148: with both cache files of the table's hash there, the
\* embeddings and the map are read and the model is initialized (123-129);
\* else the map is built, the embeddings are computed and all is saved
\* (130-148)
LoadHashed(r, files, ml) ==
  IF /\ CacheFile(files, "embeddings", Get(r.dataset_hash)) # {}
     /\ CacheFile(files, "abbr_map", Get(r.dataset_hash)) # {}
  THEN LET init == initialize_model(
                     [r EXCEPT
                        !.embeddings =
                          Some((CHOOSE f \in CacheFile(files, "embeddings",
                                                       Get(r.dataset_hash)) : TRUE).content),
                        !.abbr_map =
                          (CHOOSE f \in CacheFile(files, "abbr_map",
                                                  Get(r.dataset_hash)) : TRUE).content,
                        !.loaded_from = "cache"], ml)
       IN  IF init.raised THEN LoadFallback(init.rec, files, ml)
           ELSE LoadOutcome(FALSE, init.rec, files)
  ELSE LET comp == compute_embeddings(
                     [r EXCEPT !.abbr_map = build_abbreviation_map(Get(r.courses_df).rows),
                               !.loaded_from = "fresh"], ml)
       IN  IF comp.raised THEN LoadFallback(comp.rec, files, ml)
           ELSE LoadOutcome(FALSE, comp.rec, Saved(files, comp.rec))

\* CourseRecommender.load_courses(source): a path without a file raises
\* FileNotFoundError inside the try block
load_courses(r, files, source, ml) ==
  IF source = Nothing THEN LoadFallback(r, files, ml)
  ELSE LoadHashed(
         [r EXCEPT !.courses_df = Some([rows |-> validate_and_clean_dataset(Get(source)),
                                        combined_text |-> Nothing]),
                   !.dataset_hash =
                     Some(get_dataset_hash(validate_and_clean_dataset(Get(source))))],
         files, ml)

\* lines 226-228: the words of the expanded query that are no stop words and
\* longer than 2 characters
GuardrailKeywords(expanded_query) ==
  LET words == Split(Lower(expanded_query))
      stop_words == {"i", "want", "to", "learn", "course", "advanced", "beginner",
                     "intermediate", "in", "of", "for", "and", "with", "a", "the"}
  IN  {words[i] : i \in {j \in 1..Len(words) :
                           words[j] \notin stop_words /\ Len(words[j]) > 2}}

\* lines 210-218: the level and category entries of pre_filters
PreFilterKeeps(row, pre_filters) ==
  IF pre_filters = Nothing THEN TRUE
  ELSE /\ (Get(pre_filters).level \notin {None, "Any"}) => row.level = Get(pre_filters).level
       /\ (Get(pre_filters).category \notin {None, "Any"})
            => row.category = Get(pre_filters).category

\* round(num / den) of Python 3: to the nearest integer, a half to the even one
RoundHalfEven(num, den) ==
  IF 2 * (num % den) < den THEN num \div den
  ELSE IF 2 * (num % den) > den THEN (num \div den) + 1
  ELSE IF (num \div den) % 2 = 0 THEN num \div den
  ELSE (num \div den) + 1

\* lines 287-300 and 322-335: the rank 0..10 within the returned scores,
\* 10 for all when they are equal
LegacyRanked(top) ==
  [i \in 1..Len(top) |->
     [top[i] EXCEPT !.rank =
        IF MaxScore(top) = MinScore(top) THEN 10
        ELSE RoundHalfEven((top[i].score - MinScore(top)) * 10,
                           MaxScore(top) - MinScore(top))]]

\* what a call was asked, kept with its outcome for the properties (no
\* field of the program)
NotAsked ==
  [call |-> "load_courses", query |-> "", top_k |-> 0, pre_filters |-> Nothing,
   sims |-> <<>>]

LegacyRaised(exception, expanded_query) ==
  [outcome |-> "raise", exception |-> exception, results |-> <<>>,
   debug_info |-> [expanded_query |-> expanded_query, keyword_warning |-> FALSE],
   trace |-> NotAsked]

LegacyReturned(results, expanded_query, keyword_warning) ==
  [outcome |-> "ok", exception |-> None, results |-> results,
   debug_info |-> [expanded_query |-> expanded_query, keyword_warning |-> keyword_warning],
   trace |-> NotAsked]

\* lines 250-301: the rows at or above the threshold, np.argsort ascending
\* (stable for tables this small) read backwards, the first top_k of them
SemanticSearch(filtered, expanded_query, top_k, sims, threshold) ==
  LET AtOrAbove(c) == c.score >= threshold
      Reverse(s) == [i \in 1..Len(s) |-> s[Len(s) + 1 - i]]
      valid == SelectSeq([k \in 1..Len(filtered) |->
                            [row |-> filtered[k], score |-> sims[filtered[k]], rank |-> 0]],
                         AtOrAbove)
  IN  IF Len(valid) = 0 THEN LegacyReturned(<<>>, expanded_query, FALSE)
      ELSE LegacyReturned(LegacyRanked(Take(SortDesc(Reverse(valid)), top_k)),
                          expanded_query, FALSE)

\* keyword_score(text): the words of the query that occur in the text
keyword_score(text, query_lower) ==
  Cardinality({j \in 1..Len(Split(query_lower)) :
                 Contains(Lower(text), Split(query_lower)[j])})

\* lines 304-336: the rows with a positive keyword score, the top_k largest
KeywordScoring(df, filtered, expanded_query, top_k) ==
  LET Positive(c) == c.score > 0
      scored == SelectSeq([k \in 1..Len(filtered) |->
                             [row |-> filtered[k],
                              score |-> 100 * keyword_score(Get(df.combined_text)[filtered[k]],
                                                            Lower(expanded_query)),
                              rank |-> 0]],
                          Positive)
  IN  IF Len(scored) = 0 THEN LegacyReturned(<<>>, expanded_query, FALSE)
      ELSE LegacyReturned(LegacyRanked(Take(SortDesc(scored), top_k)), expanded_query, FALSE)

\* lines 246-336: the semantic search when the model and embeddings of the
\* table's length are there, else the keyword scoring, which reads the
\* column combined_text
LegacySearch(r, df, filtered, expanded_query, top_k, sims, threshold) ==
  IF r.model # Nothing /\ r.embeddings # Nothing
       /\ Len(Get(r.embeddings)) = Len(df.rows)
  THEN SemanticSearch(filtered, expanded_query, top_k, sims, threshold)
  ELSE IF df.combined_text = Nothing THEN LegacyRaised("KeyError", expanded_query)
  ELSE KeywordScoring(df, filtered, expanded_query, top_k)

\* lines 225-243: with keywords the column combined_text is read (the
\* lowercased texts of the filtered rows joined by spaces), and a keyword
\* found nowhere in it ends the request
KeywordGuardrail(r, df, filtered, expanded_query, keywords, top_k, sims, threshold) ==
  IF keywords # {} /\ df.combined_text = Nothing
  THEN LegacyRaised("KeyError", expanded_query)
  ELSE IF keywords # {}
          /\ \E kw \in keywords :
               ~Contains(Join([k \in 1..Len(filtered) |->
                                 Lower(Get(df.combined_text)[filtered[k]])]), kw)
  THEN LegacyReturned(<<>>, expanded_query, TRUE)
  ELSE LegacySearch(r, df, filtered, expanded_query, top_k, sims, threshold)

\* lines 207-223: the rows the pre-filters keep
AfterExpansion(r, df, expanded_query, top_k, pre_filters, sims, threshold) ==
  LET Keeps(i) == PreFilterKeeps(df.rows[i], pre_filters)
      filtered == SelectSeq([i \in 1..Len(df.rows) |-> i], Keeps)
  IN  IF Len(filtered) = 0 THEN LegacyReturned(<<>>, expanded_query, FALSE)
      ELSE KeywordGuardrail(r, df, filtered, expanded_query,
                            GuardrailKeywords(expanded_query), top_k, sims, threshold)

\* CourseRecommender.recommend on a loaded recommender
CourseRecommender_recommend(r, user_query, top_k, pre_filters, sims, threshold) ==
  IF Strip(user_query) = "" THEN LegacyReturned(<<>>, user_query, FALSE)
  ELSE AfterExpansion(r, Get(r.courses_df), expand_query(user_query, r.abbr_map), top_k,
                      pre_filters, sims, threshold)

\* a process starts: CourseRecommender()
StartProcess ==
  /\ answer = Nothing
  /\ recommender' = Some(CourseRecommender_init)
  /\ UNCHANGED <<outputs, answer>>
  /\ UNCHANGED <<env, dl_index, dl_courses_df, pipeline, can_encode, model, reranker,
                 response, conc, pure>>

\* rec.load_courses(source)
LoadCourses ==
  /\ answer = Nothing
  /\ recommender # Nothing
  /\ \E source \in LegacySources :
       \E l \in {load_courses(Get(recommender), outputs, source, env.ml)} :
         /\ recommender' = Some(l.rec)
         /\ outputs' = l.files
         /\ answer' = IF l.raised THEN Some(LegacyRaised("ModelLoadError", ""))
                      ELSE Nothing
  /\ UNCHANGED <<env, dl_index, dl_courses_df, pipeline, can_encode, model, reranker,
                 response, conc, pure>>

\* rec.recommend(user_query, top_k, pre_filters); without a table loaded it
\* loads data/courses.csv first (lines 187-189)
LegacyRecommend ==
  /\ answer = Nothing
  /\ recommender # Nothing
  /\ \E default \in IF Get(recommender).courses_df = Nothing THEN LegacySources ELSE {Nothing} :
       \E l \in {IF Get(recommender).courses_df = Nothing
                 THEN load_courses(Get(recommender), outputs, default, env.ml)
                 ELSE LoadOutcome(FALSE, Get(recommender), outputs)} :
         /\ recommender' = Some(l.rec)
         /\ outputs' = l.files
         /\ IF l.raised
            THEN answer' = Some(LegacyRaised("ModelLoadError", ""))
            ELSE \E user_query \in LegacyQueries, top_k \in LegacyTopKs,
                    pre_filters \in PreFilterSets,
                    sims \in Similarities(Len(Get(l.rec.courses_df).rows)) :
                   answer' = Some([CourseRecommender_recommend(l.rec, user_query, top_k,
                                                               pre_filters, sims,
                                                               similarity_threshold)
                                     EXCEPT !.trace = [call |-> "recommend",
                                                       query |-> user_query,
                                                       top_k |-> top_k,
                                                       pre_filters |-> pre_filters,
                                                       sims |-> sims]])
  /\ UNCHANGED <<env, dl_index, dl_courses_df, pipeline, can_encode, model, reranker,
                 response, conc, pure>>

\* the caller takes the answer
LegacyReturn ==
  /\ answer # Nothing
  /\ answer' = Nothing
  /\ UNCHANGED <<recommender, outputs>>
  /\ UNCHANGED <<env, dl_index, dl_courses_df, pipeline, can_encode, model, reranker,
                 response, conc, pure>>

LegacyInit ==
  /\ env \in [HAS_DATA_LIBS : {TRUE}, files : {[faiss |-> MissingFile, parquet |-> MissingFile]},
              ml : ModelSetups]
  /\ dl_index = Nothing
  /\ dl_courses_df = Nothing
  /\ pipeline = Nothing
  /\ can_encode = FALSE
  /\ model = Nothing
  /\ reranker = Nothing
  /\ response = Nothing
  /\ conc = NoThreads
  /\ recommender = Nothing
  /\ outputs = {}
  /\ answer = Nothing
  /\ lib_call = Nothing
  /\ lib_result = Nothing

LegacyNext == StartProcess \/ LoadCourses \/ LegacyRecommend \/ LegacyReturn

LegacySpec == LegacyInit /\ [][LegacyNext]_vars

(***************************************************************************)
(* src/src/api/filters.py                                                  *)
(***************************************************************************)
\* normalize_text(s): s.strip().lower()
normalize_text(s) == Lower(Strip(s))

\* the filter in which an allowed category keeps an item that an exclude
\* keyword names
apply_filters_AllowanceWins(results, allowed_categories, exclude_keywords) ==
  LET allowed == IF allowed_categories = Nothing THEN <<>> ELSE Get(allowed_categories)
      exclude == IF exclude_keywords = Nothing THEN <<>> ELSE Get(exclude_keywords)
      Keeps(item) ==
        \/ \E i \in 1..Len(allowed) :
             Contains(normalize_text(item.category), normalize_text(allowed[i]))
        \/ /\ Len(allowed) = 0
           /\ ~\E i \in 1..Len(exclude) :
                \/ Contains(normalize_text(item.title), normalize_text(exclude[i]))
                \/ Contains(normalize_text(item.category), normalize_text(exclude[i]))
  IN  SelectSeq(results, Keeps)

\* apply_filters(results, allowed_categories, exclude_keywords); the two
\* filter lists are Optional (None, or a list that may be empty)
apply_filters(results, allowed_categories, exclude_keywords) ==
  IF Len(results) = 0 THEN <<>>
  ELSE
    LET norm_allowed ==
          IF allowed_categories = Nothing THEN <<>>
          ELSE [i \in 1..Len(Get(allowed_categories)) |->
                  normalize_text(Get(allowed_categories)[i])]
        norm_exclude ==
          IF exclude_keywords = Nothing THEN <<>>
          ELSE [i \in 1..Len(Get(exclude_keywords)) |->
                  normalize_text(Get(exclude_keywords)[i])]
        Keeps(item) ==
          LET title == normalize_text(item.title)
              category == normalize_text(item.category)
              is_excluded == \E i \in 1..Len(norm_exclude) :
                               \/ Contains(title, norm_exclude[i])
                               \/ Contains(category, norm_exclude[i])
              is_allowed == \E i \in 1..Len(norm_allowed) :
                              Contains(category, norm_allowed[i])
          IN  /\ ~is_excluded
              /\ Len(norm_allowed) > 0 => is_allowed
    IN  SelectSeq(results, Keeps)

\* the largest number of items handed to apply_filters
MaxItems == 3

\* the items of the tests of apply_filters (title, category)
FilterItems ==
  {[title |-> "Python Programming", category |-> "Programming"],
   [title |-> "PHP for Dummies", category |-> "Programming"],
   [title |-> "SQL for Analysts", category |-> "Data"],
   [title |-> "Laravel Course", category |-> "PHP"]}

FilterResultLists == UNION {[1..n -> FilterItems] : n \in 0..MaxItems}

\* allowed_categories: absent, empty, the list of the test, a name with a
\* blank around it
AllowedChoices == {Nothing, Some(<<>>), Some(<<"Programming", "Data">>), Some(<<" data ">>)}

\* exclude_keywords: absent, empty, the list of the test, a keyword with a
\* blank before it, a blank alone
ExcludeChoices == {Nothing, Some(<<>>), Some(<<"php", "react">>), Some(<<" PHP">>), Some(<<" ">>)}

\* the courses, queries, scores and thresholds check_gating is called with
GateCourses ==
  {CatalogA[i] : i \in 1..Len(CatalogA)} \cup {CatalogB[i] : i \in 1..Len(CatalogB)}
    \cup {Course("Systems Programming", "C++|SQL", "write fast code in c++", "Advanced",
                 "Programming")}

GateQueries ==
  {"python", "python sql", "learn python programming", "how lead big team", "advanced course",
   "big data", "c++ programming", "python team", "Python", "lead sql team", ""}

GateScoreSet == {20, 30, 60, 61, 70}

GateThresholds ==
  {0, SEMANTIC_THRESHOLD_RELAXED, SEMANTIC_THRESHOLD_ARABIC, SEMANTIC_THRESHOLD_GENERAL}

(***************************************************************************)
(* src/src/report/catalog_weekly.py: the category statistics of            *)
(* build_catalog_weekly_report (levels, instructors, shares and the        *)
(* markdown text are left out; they read the catalog and write nothing the *)
(* category lists depend on)                                               *)
(***************************************************************************)
\* the name the API gives with each category id
CategoryNames == <<"Python", "Data Science", "Design">>

RECURSIVE SortByCount(_, _, _, _)
\* list.sort(key=course_count, reverse=reverse): stable in both directions
SortByCount(s, i, acc, reverse) ==
  IF i > Len(s) THEN acc
  ELSE LET Before(e) == IF reverse THEN e.course_count >= s[i].course_count
                                   ELSE e.course_count <= s[i].course_count
           k == Cardinality({j \in 1..Len(acc) : \A m \in 1..j : Before(acc[m])})
       IN  SortByCount(s, i + 1, SubSeq(acc, 1, k) \o <<s[i]>> \o SubSeq(acc, k + 1, Len(acc)),
                       reverse)

\* lines 26-44 and 64-67: one entry per category id in the order in which
\* the ids are first met, with the number of courses that list it
CategoryStats(courses) ==
  LET ids == FlattenRange([i \in 1..Len(courses) |-> courses[i].categories], 1, Len(courses))
      IsFirst(p) == \A r \in 1..(p - 1) : ids[r] # ids[p]
      firsts == SelectSeq([p \in 1..Len(ids) |-> p], IsFirst)
  IN  [k \in 1..Len(firsts) |->
         [id |-> ids[firsts[k]], name |-> CategoryNames[ids[firsts[k]]],
          course_count |-> Cardinality({p \in 1..Len(ids) : ids[p] = ids[firsts[k]]})]]

\* lines 70-129, from all_cat_stats as line 68 sorted it.  top_categories is
\* a slice, a list of its own.  low_coverage_categories is the slice
\* all_cat_stats[-bottom_n:] (the whole list for bottom_n = 0) when there
\* are more than bottom_n categories, and otherwise all_cat_stats itself:
\* the sort of line 72 then reorders all_cat_stats, from which the insights
\* and the 'categories' entry of the report are taken afterwards.
CategoryReport(sorted, total_courses, top_n, bottom_n) ==
  LET aliased == ~(Len(sorted) > bottom_n)
      low == SortByCount(IF aliased \/ bottom_n = 0 THEN sorted
                         ELSE SubSeq(sorted, Len(sorted) - bottom_n + 1, Len(sorted)),
                         1, <<>>, FALSE)
      all_cat_stats == IF aliased THEN low ELSE sorted
  IN  [status |-> "ok",
       kpis |-> [total_courses |-> total_courses, total_categories |-> Len(sorted)],
       categories |-> all_cat_stats,
       top_categories |-> Take(sorted, top_n),
       low_coverage_categories |-> low,
       highest |-> IF Len(all_cat_stats) > 0 THEN Some(all_cat_stats[1]) ELSE Nothing,
       lowest |-> IF Len(all_cat_stats) > 0
                  THEN Some(all_cat_stats[Len(all_cat_stats)]) ELSE Nothing]

\* build_catalog_weekly_report(top_n, bottom_n) on the courses the client
\* returned
build_catalog_weekly_report(courses, top_n, bottom_n) ==
  IF Len(courses) = 0 THEN [status |-> "empty"]
  ELSE CategoryReport(SortByCount(CategoryStats(courses), 1, <<>>, TRUE), Len(courses),
                      top_n, bottom_n)

\* the largest number of courses the client returns
MaxCourses == 3

\* the category ids a course lists
CourseCategoryLists == {<<>>, <<1>>, <<2>>, <<3>>, <<1, 2>>, <<2, 3>>}

ClientCourses ==
  UNION {[1..n -> {[categories |-> c] : c \in CourseCategoryLists}] : n \in 0..MaxCourses}

\* top_n and bottom_n: none, fewer than the categories, the default
ReportSizes == {0, 1, 2, 10}

(***************************************************************************)
(* The functions without state, each called with arguments of its domain   *)
(***************************************************************************)
\* apply_filters is called
ApplyFilters ==
  /\ lib_call = Nothing
  /\ \E results \in FilterResultLists, allowed \in AllowedChoices, exclude \in ExcludeChoices :
       /\ lib_call' = Some([fn |-> "apply_filters", results |-> results,
                            allowed_categories |-> allowed, exclude_keywords |-> exclude])
       /\ lib_result' = Some(apply_filters(results, allowed, exclude))
  /\ UNCHANGED <<env, dl_index, dl_courses_df, pipeline, can_encode, model, reranker,
                 response, conc, legacy>>

\* check_gating is called
CheckGating ==
  /\ lib_call = Nothing
  /\ \E course \in GateCourses, score \in GateScoreSet, normalized_query \in GateQueries,
        threshold \in GateThresholds, is_short_query \in BOOLEAN :
       /\ lib_call' = Some([fn |-> "check_gating", course |-> course, score |-> score,
                            normalized_query |-> normalized_query, threshold |-> threshold,
                            is_short_query |-> is_short_query])
       /\ lib_result' = Some(check_gating(course, score, normalized_query, threshold,
                                          is_short_query))
  /\ UNCHANGED <<env, dl_index, dl_courses_df, pipeline, can_encode, model, reranker,
                 response, conc, legacy>>

\* build_catalog_weekly_report is called
BuildReport ==
  /\ lib_call = Nothing
  /\ \E courses \in ClientCourses, top_n \in ReportSizes, bottom_n \in ReportSizes :
       /\ lib_call' = Some([fn |-> "build_catalog_weekly_report", courses |-> courses,
                            top_n |-> top_n, bottom_n |-> bottom_n])
       /\ lib_result' = Some(build_catalog_weekly_report(courses, top_n, bottom_n))
  /\ UNCHANGED <<env, dl_index, dl_courses_df, pipeline, can_encode, model, reranker,
                 response, conc, legacy>>

\* the caller takes the result
LibReturn ==
  /\ lib_call # Nothing
  /\ lib_call' = Nothing
  /\ lib_result' = Nothing
  /\ UNCHANGED <<env, dl_index, dl_courses_df, pipeline, can_encode, model, reranker,
                 response, conc, legacy>>

LibInit ==
  /\ env = [HAS_DATA_LIBS |-> TRUE, files |-> [faiss |-> MissingFile, parquet |-> MissingFile],
            ml |-> [HAS_ML |-> FALSE, model_ok |-> FALSE, reranker_ok |-> FALSE]]
  /\ dl_index = Nothing
  /\ dl_courses_df = Nothing
  /\ pipeline = Nothing
  /\ can_encode = FALSE
  /\ model = Nothing
  /\ reranker = Nothing
  /\ response = Nothing
  /\ conc = NoThreads
  /\ recommender = Nothing
  /\ outputs = {}
  /\ answer = Nothing
  /\ lib_call = Nothing
  /\ lib_result = Nothing

LibNext == ApplyFilters \/ CheckGating \/ BuildReport \/ LibReturn

LibSpec == LibInit /\ [][LibNext]_vars

(***************************************************************************)
(* Properties                                                              *)
(***************************************************************************)
HasResponse == response # Nothing
Resp == Get(response)
Answered == HasResponse /\ Resp.outcome = "ok"
Catalog == Get(Get(pipeline).courses_df)
CourseOf(c) == Catalog[c.idx + 1]
Indices(cands) == {cands[i].idx : i \in 1..Len(cands)}

\* kw occurs in text (case-insensitive) and none of its ends cuts a word:
\* no word character touches a word character at the start or at the end
\* of the occurrence
WholeWordIn(text, kw) ==
  LET lt == IF text = NaN THEN "" ELSE Lower(text)
      n == Len(kw)
  IN  \E p \in 1..Len(lt) :
        /\ OccursAt(lt, kw, p)
        /\ IsWordChar(Ch(kw, 1)) => (p = 1 \/ ~IsWordChar(Ch(lt, p - 1)))
        /\ IsWordChar(Ch(kw, n)) => (p + n > Len(lt) \/ ~IsWordChar(Ch(lt, p + n)))

CourseMentions(course, kw) ==
  \/ WholeWordIn(course.title, kw)
  \/ WholeWordIn(course.skills, kw)
  \/ WholeWordIn(course.description, kw)

\* C1: when the normalized query is one strict technical keyword, every
\* returned item contains that keyword as a whole word (case-insensitive) in
\* its title, skills or description, whatever the scores and with or
\* without reranking.
C1_StrictKeywordInEveryResult ==
  (Answered /\ Resp.trace.norm_query \in STRICT_TECH_KEYWORDS)
    => \A i \in 1..Len(Resp.results) :
         CourseMentions(CourseOf(Resp.results[i]), Resp.trace.norm_query)

\* a single-keyword query returned items although a hit without the keyword
\* scored above 0.60
C1_Witness ==
  /\ Answered
  /\ Resp.trace.norm_query \in STRICT_TECH_KEYWORDS
  /\ Len(Resp.results) >= 1
  /\ \E i \in 1..Len(Resp.trace.hits) :
       /\ Resp.trace.hits[i].score > 60
       /\ Resp.trace.hits[i].idx \notin Indices(Resp.results)
       /\ ~CourseMentions(Catalog[Resp.trace.hits[i].idx + 1], Resp.trace.norm_query)

\* the strict keywords of the normalized query that no title, skills or
\* description of the catalog contains
AbsentStrictTokens(raw) ==
  LET tokens == Split(normalize_query(raw))
      InCatalog(t) ==
        \E i \in 1..Len(Catalog) :
          \/ Contains(Lower(FillNa(Catalog[i].title)), t)
          \/ Contains(Lower(FillNa(Catalog[i].skills)), t)
          \/ Contains(Lower(FillNa(Catalog[i].description)), t)
  IN  {tokens[i] : i \in {j \in 1..Len(tokens) :
                            tokens[j] \in STRICT_TECH_KEYWORDS /\ ~InCatalog(tokens[j])}}

\* C2: with the catalog loaded, a query whose normalized text holds a strict
\* technical keyword found nowhere in the corpus gets zero results,
\* total_found = 0 and a blocked_reason, and nothing is searched, gated or
\* reranked for it.
C2_AbsentKeywordBlocks ==
  (HasResponse /\ Get(pipeline).courses_df # Nothing /\ Get(pipeline).index # Nothing
     /\ AbsentStrictTokens(Resp.trace.request.query) # {})
    => /\ Resp.outcome = "ok"
       /\ Resp.results = <<>>
       /\ Resp.total_found = 0
       /\ "blocked_reason" \in DOMAIN Resp.debug_info
       /\ Resp.trace.path = "none"
       /\ Resp.trace.hits = <<>>
       /\ Resp.trace.gate_log = <<>>
       /\ ~Resp.trace.rerank_ran

\* a query of three tokens was blocked for a strict keyword that is absent
C2_Witness ==
  /\ HasResponse
  /\ Get(pipeline).courses_df # Nothing
  /\ Len(Catalog) > 0
  /\ Len(Split(normalize_query(Resp.trace.request.query))) > 2
  /\ AbsentStrictTokens(Resp.trace.request.query) # {}
  /\ "blocked_reason" \in DOMAIN Resp.debug_info

\* C3: the gate runs at the relaxed threshold only after the primary
\* threshold left fewer than 3 candidates for a query that is not short; for
\* a short query the candidates are exactly those of the pass at the primary
\* threshold, so fewer than 3 matches give fewer than 3 results.
C3_RelaxOnlyLongAndFew ==
  (HasResponse /\ Resp.trace.path # "none")
    => LET tr == Resp.trace
           short == Len(Split(tr.norm_query)) <= 2
       IN  /\ (\E i \in 1..Len(tr.gate_log) : i > 1 \/ tr.gate_log[i] = SEMANTIC_THRESHOLD_RELAXED)
                => (Len(tr.first_pass) < 3 /\ ~short)
           /\ (short /\ Resp.outcome = "ok")
                => /\ tr.gated = tr.first_pass
                   /\ Len(tr.gate_log) <= 1
                   /\ Indices(Resp.results) \subseteq Indices(tr.first_pass)
                   /\ Len(tr.first_pass) < 3 => Len(Resp.results) < 3

\* a short query returned one or two results although another hit would
\* have been accepted at the relaxed threshold
C3_Witness ==
  /\ Answered
  /\ Resp.trace.path = "semantic"
  /\ Len(Split(Resp.trace.norm_query)) <= 2
  /\ Len(Resp.trace.first_pass) \in {1, 2}
  /\ Len(Resp.results) = Len(Resp.trace.first_pass)
  /\ \E i \in 1..Len(Resp.trace.hits) :
       LET hit == Resp.trace.hits[i]
       IN  /\ hit.idx \notin Indices(Resp.trace.first_pass)
           /\ hit.score < Resp.debug_info.threshold_used
           /\ check_gating(Catalog[hit.idx + 1], hit.score, Resp.trace.norm_query,
                           SEMANTIC_THRESHOLD_RELAXED, TRUE).valid

\* C4: when fewer than 3 candidates survive gating, relaxation included,
\* recommend returns a response (possibly empty) and raises nothing, for
\* short and long queries, on the semantic and on the fallback path.
C4_FewResultsNoException ==
  (HasResponse /\ Resp.trace.path # "none"
     /\ Resp.exception \notin {"ModelLoadError", "AttributeError", "IndexError"})
    => LET tr == Resp.trace
           survivors == IF Len(tr.gate_log) = 2 THEN tr.gated ELSE tr.first_pass
       IN  Len(survivors) < 3 => Resp.outcome = "ok"

\* C5: every result of a non-empty result list carries a rank that is an
\* integer from 1 to 10, for any scores, any top_k, reranking on or off.
C5_RankInRange ==
  Answered => \A i \in 1..Len(Resp.results) : Resp.results[i].rank \in 1..10

\* a reranked response with a negative score whose ranks span 1 to 10
C5_Witness ==
  /\ Answered
  /\ Resp.trace.rerank_ran
  /\ \E i, j, k \in 1..Len(Resp.results) :
       /\ Resp.results[i].rank = 1
       /\ Resp.results[i].score < 0
       /\ Resp.results[j].rank = 10
       /\ Resp.results[k].rank \in 2..9

\* C6: within one response a strictly higher score never has a strictly
\* lower rank, also when reranked entries and entries of the tail left
\* unreranked are mixed.
C6_RankMonotone ==
  Answered => \A i, j \in 1..Len(Resp.results) :
                Resp.results[i].score > Resp.results[j].score
                  => Resp.results[i].rank >= Resp.results[j].rank

\* a response holding reranked entries and tail entries, a tail entry
\* scoring above a reranked one
C6_Witness ==
  /\ Answered
  /\ Resp.trace.rerank_ran
  /\ Len(Resp.results) > RERANK_SLICE
  /\ \E i \in 1..RERANK_SLICE, j \in (RERANK_SLICE + 1)..Len(Resp.results) :
       /\ Resp.results[j].score > Resp.results[i].score
       /\ Resp.results[j].rank > Resp.results[i].rank

\* C7: the rerank step adds, removes and duplicates nothing: the list after
\* it is a permutation of the list before it in which only the first 20
\* entries change position or score; the entries beyond position 20 keep
\* their scores and their order and stay behind the first 20.
C7_RerankPermutesFirstSlice ==
  (Answered /\ Resp.trace.rerank_ran)
    => LET before == Resp.trace.gated
           after == Resp.trace.reranked
           Same(a, b) == [a EXCEPT !.score = 0] = [b EXCEPT !.score = 0]
       IN  /\ Len(after) = Len(before)
           /\ \A i \in 1..Len(before) : \E j \in 1..Len(after) : Same(before[i], after[j])
           /\ \A i, j \in 1..Len(after) : after[i].idx = after[j].idx => i = j
           /\ \A i \in 1..Len(after) :
                i > RERANK_SLICE => after[i] = before[i]
           /\ \A i \in 1..Len(after) :
                i <= RERANK_SLICE => \E j \in 1..RERANK_SLICE : Same(before[j], after[i])

\* more than 20 candidates were reranked and the first of them moved
C7_Witness ==
  /\ Answered
  /\ Resp.trace.rerank_ran
  /\ Len(Resp.trace.gated) > RERANK_SLICE
  /\ Resp.trace.reranked[1].idx # Resp.trace.gated[1].idx
  /\ Resp.trace.reranked[RERANK_SLICE + 1].score > Resp.trace.reranked[RERANK_SLICE].score

\* the scores the gate is asked about for every hit of a request
GateScores == ScoreSet \cup {100}

\* C8 (as stated): for a short query check_gating accepts a course only
\* with at least one matched keyword, whatever the score.
C8_ShortNeverOnScoreAlone ==
  (Answered /\ Resp.trace.path = "semantic" /\ Len(Split(Resp.trace.norm_query)) <= 2)
    => \A i \in 1..Len(Resp.trace.hits) : \A score \in GateScores :
         LET g == check_gating(Catalog[Resp.trace.hits[i].idx + 1], score,
                               Resp.trace.norm_query, Resp.debug_info.threshold_used, TRUE)
         IN  g.valid => Len(g.matched) > 0

\* C8 (amended): for a short query that has at least one strong keyword,
\* check_gating accepts a course only with at least one matched keyword,
\* whatever the score; a query of this kind whose keywords are in no course
\* returns zero results.
C8_ShortWithKeywordsNeedsMatch ==
  (Answered /\ Resp.trace.path # "none" /\ Len(Split(Resp.trace.norm_query)) <= 2
     /\ Len(extract_strong_keywords_regex(Resp.trace.norm_query)) > 0)
    => /\ \A i \in 1..Len(Resp.trace.hits) : \A score \in GateScores :
            LET g == check_gating(Catalog[Resp.trace.hits[i].idx + 1], score,
                                  Resp.trace.norm_query, Resp.debug_info.threshold_used, TRUE)
            IN  g.valid => Len(g.matched) > 0
       /\ \A i \in 1..Len(Resp.results) : Len(Resp.results[i].matched_keywords) > 0
       /\ (\A c \in 1..Len(Catalog) :
             Len(MatchedKeywords(Catalog[c],
                                 extract_strong_keywords_regex(Resp.trace.norm_query))) = 0)
            => Resp.results = <<>>

\* a short query with keywords found in no course got zero results although
\* a hit scored above 0.60
C8_Witness ==
  /\ Answered
  /\ Resp.trace.path = "semantic"
  /\ Len(Split(Resp.trace.norm_query)) <= 2
  /\ Len(extract_strong_keywords_regex(Resp.trace.norm_query)) > 0
  /\ Resp.trace.norm_query \notin STRICT_TECH_KEYWORDS
  /\ Resp.results = <<>>
  /\ \E i \in 1..Len(Resp.trace.hits) : Resp.trace.hits[i].score > 60

\* the index file or the catalog file is not there at startup
DataMissing == ~env.files.faiss.exists \/ ~env.files.parquet.exists

\* C9: when the index or the catalog table is missing at startup, load_data
\* returns (None, None), never one without the other, and every recommend
\* call returns results = [], total_found = 0 and a debug_info with an
\* error entry, without raising.
C9_MissingDataDegrades ==
  pipeline # Nothing
    => /\ (Get(pipeline).index = Nothing) <=> (Get(pipeline).courses_df = Nothing)
       /\ DataMissing
            => /\ Get(pipeline).index = Nothing
               /\ Get(pipeline).courses_df = Nothing
               /\ HasResponse
                    => /\ Resp.outcome = "ok"
                       /\ Resp.results = <<>>
                       /\ Resp.total_found = 0
                       /\ "error" \in DOMAIN Resp.debug_info

\* a request was answered after a startup that read the index and found no
\* catalog table
C9_Witness ==
  /\ HasResponse
  /\ env.HAS_DATA_LIBS
  /\ env.files.faiss.exists /\ env.files.faiss.readable
  /\ ~env.files.parquet.exists
  /\ dl_index # Nothing
  /\ Resp.outcome = "ok"
  /\ "error" \in DOMAIN Resp.debug_info

\* the index holds a row position that is no row of the catalog table
Misaligned ==
  /\ pipeline # Nothing
  /\ Get(pipeline).index # Nothing
  /\ Get(pipeline).courses_df # Nothing
  /\ Get(Get(pipeline).index) > Len(Get(Get(pipeline).courses_df))

\* C10: with the index and the catalog table misaligned, a request that
\* gets as far as looking up candidates is answered with zero results and an
\* error entry, and recommend does not raise.
C10_MisalignedDegrades ==
  (Misaligned /\ HasResponse /\ Resp.trace.path # "none"
     /\ Resp.exception \notin {"ModelLoadError", "AttributeError", "NameError",
                               "UnboundLocalError"})
    => /\ Resp.outcome = "ok"
       /\ Resp.results = <<>>
       /\ Resp.total_found = 0
       /\ "error" \in DOMAIN Resp.debug_info

\* the embedding libraries are installed and SentenceTransformer(...) fails
ModelUnavailable == env.ml.HAS_ML /\ ~env.ml.model_ok

\* C11: a failure to load the embedding model is not fatal: the request
\* during which it happens, and every later one, is answered through the
\* keyword-only fallback and the failure does not leave recommend.
C11_ModelFailureNotFatal ==
  (HasResponse /\ ModelUnavailable /\ Resp.trace.path # "none")
    => /\ Resp.exception \notin {"ModelLoadError", "AttributeError"}
       /\ Resp.trace.path = "fallback"

\* C12: with the reranker model unavailable, a request with
\* enable_reranking = true returns what the same request returns with
\* enable_reranking = false (the gated candidates, truncated and ranked):
\* same results, same order, same scores and ranks.
C12_RerankerUnavailableIsNoOp ==
  (Answered /\ Resp.trace.path # "none" /\ Resp.trace.request.enable_reranking
     /\ reranker = Nothing)
    => Resp.results = normalize_rank_1_10(Take(Resp.trace.gated, Resp.trace.request.top_k))

\* C13: when requests trigger the first initialization together, the index,
\* the catalog table, the pipeline and the embedding model are each loaded
\* exactly once: no interleaving leads to a second load or replaces a loaded
\* object.
C13_LoadedOnce ==
  /\ conc.index_loads <= 1
  /\ conc.table_loads <= 1
  /\ conc.pipelines <= 1
  /\ conc.model_loads <= 1

\* C19: rank normalization runs before the truncation to top_k: the rank of
\* a returned item is derived from the minimum and the maximum score of all
\* surviving candidates, so it is the same for every top_k that includes
\* the item.
C19_RankFromWholeSurvivingSet ==
  (Answered /\ Len(Resp.results) > 0)
    => \A i \in 1..Len(Resp.results) :
         Resp.results[i].rank = RankOf(Resp.results[i].score,
                                       MinScore(Resp.trace.reranked),
                                       MaxScore(Resp.trace.reranked))

\* the list handed to normalize_rank_1_10 (valid_candidates[:top_k])
Ranked == Take(Resp.trace.reranked, Resp.trace.request.top_k)

\* C20: normalize_rank_1_10 maps the scores linearly from [min_score,
\* max_score] onto 1..10: with scores that are not all equal the lowest
\* score gets rank 1 and the highest rank 10, with equal scores (one item
\* included) every item gets the midpoint 5, and an empty list comes back
\* unchanged; nothing but the rank of an item is touched.
C20_LinearOntoOneToTen ==
  (Answered /\ Resp.trace.path # "none")
    => /\ Len(Resp.results) = Len(Ranked)
       /\ Ranked = <<>> => Resp.results = <<>>
       /\ \A i \in 1..Len(Resp.results) :
            LET r == Resp.results[i]
                lo == MinScore(Ranked)
                hi == MaxScore(Ranked)
            IN  /\ r = [Ranked[i] EXCEPT !.rank = r.rank]
                /\ lo = hi => r.rank = 5
                /\ lo < hi =>
                     /\ r.score = lo => r.rank = 1
                     /\ r.score = hi => r.rank = 10
                     /\ (r.rank - 1) * (hi - lo) <= (r.score - lo) * 9
                     /\ (r.score - lo) * 9 < r.rank * (hi - lo)

\* a response of at least three items with different scores, the lowest
\* ranked 1, the highest 10 and one in between
C20_Witness ==
  /\ Answered
  /\ Len(Resp.results) >= 3
  /\ \E i, j, k \in 1..Len(Resp.results) :
       /\ Resp.results[i].score = MinScore(Ranked) /\ Resp.results[i].rank = 1
       /\ Resp.results[j].score = MaxScore(Ranked) /\ Resp.results[j].rank = 10
       /\ Resp.results[k].score > MinScore(Ranked)
       /\ Resp.results[k].score < MaxScore(Ranked)
       /\ Resp.results[k].rank \in 2..9

\* an Arabic query and its English equivalent: both normalize to "python"
ArabicQuery == "@~ ^$"
EnglishQuery == "Python"

\* the similarity of the normalized query to each row, as the search of
\* the answered request found it (no search on the fallback path)
SearchScores ==
  LET hits == Resp.trace.hits
      ntotal == Get(Get(pipeline).index)
      ScoreOfRow(i) == LET k == CHOOSE k \in 1..Len(hits) : hits[k].idx = i
                       IN  hits[k].score
  IN  [i \in 0..(ntotal - 1) |-> IF Len(hits) = 0 THEN 0 ELSE ScoreOfRow(i)]

\* the response to the same request asked in English: the normalized text,
\* hence the query vector and the scores, are those of the Arabic request
EnglishTwin ==
  recommend(Get(pipeline), env.ml, model, can_encode, reranker,
            [Resp.trace.request EXCEPT !.query = EnglishQuery],
            QueryContext(Get(pipeline), EnglishQuery), SearchScores, 1).response

TopItem(r) ==
  IF r.outcome = "ok" /\ Len(r.results) > 0 THEN Some(r.results[1].idx) ELSE Nothing

\* exactly one course of the catalog is about the topic of the query
UniqueMatch ==
  Cardinality({i \in 1..Len(Catalog) : CourseMentions(Catalog[i], "python")}) = 1

\* an answered Arabic request on a catalog with a unique match
ArabicRequestAnswered ==
  /\ Answered
  /\ Resp.trace.path # "none"
  /\ Resp.trace.request.query = ArabicQuery
  /\ is_arabic(ArabicQuery) /\ ~is_arabic(EnglishQuery)
  /\ normalize_query(ArabicQuery) = normalize_query(EnglishQuery)
  /\ UniqueMatch

\* C17: an Arabic query and an English query that normalize to the same
\* text naming a topic with a unique matching item get the same top item,
\* the one gated at the Arabic threshold, the other at the general one.
C17_SameTopItem ==
  ArabicRequestAnswered => TopItem(Resp) = TopItem(EnglishTwin)

\* C17 as the code has it: the top item of the English query is the top
\* item of the Arabic one; an Arabic top item scoring at or above the
\* general threshold is the English top item too; the two differ only when
\* the item scores from the Arabic threshold up to below the general one,
\* where the Arabic query alone returns it.
C17_SameTopItemFromGeneralThreshold ==
  ArabicRequestAnswered
    => /\ TopItem(EnglishTwin) # Nothing => TopItem(Resp) = TopItem(EnglishTwin)
       /\ (TopItem(Resp) # Nothing /\ Resp.results[1].score >= SEMANTIC_THRESHOLD_GENERAL)
            => TopItem(EnglishTwin) = TopItem(Resp)
       /\ TopItem(Resp) # TopItem(EnglishTwin)
            => /\ Resp.results[1].score >= SEMANTIC_THRESHOLD_ARABIC
               /\ Resp.results[1].score < SEMANTIC_THRESHOLD_GENERAL
               /\ Resp.debug_info.threshold_used = SEMANTIC_THRESHOLD_ARABIC
               /\ EnglishTwin.debug_info.threshold_used = SEMANTIC_THRESHOLD_GENERAL

\* the Arabic request answered by the semantic search with the unique
\* match, which the English request returns as well
C17_Witness ==
  /\ ArabicRequestAnswered
  /\ Resp.trace.path = "semantic"
  /\ TopItem(Resp) # Nothing
  /\ CourseMentions(CourseOf(Resp.results[1]), "python")
  /\ TopItem(EnglishTwin) = TopItem(Resp)

\* the answer to a call of CourseRecommender.recommend, and the recommender
\* that gave it
LegacyAnswered == answer # Nothing /\ Get(answer).trace.call = "recommend"
Ans == Get(answer)
Rec == Get(recommender)
LegacyRows == Get(Rec.courses_df).rows

\* the entry of abbr in the recommender's map is what build_abbreviation_map
\* mines from "(ABBR)" and the full form before it in this text
MinedFrom(text, abbr) ==
  /\ HasAbbr(Rec.abbr_map, abbr)
  /\ HasAbbr(MineText(text, <<>>), abbr)
  /\ Expansion(MineText(text, <<>>), abbr) = Expansion(Rec.abbr_map, abbr)

\* C14: a query that consists of a mined abbreviation alone retrieves the
\* item from whose title or description the entry was mined.  Stated for
\* the requests most in its favour: no pre-filter, a top_k that covers the
\* catalog, and a similarity of the item at or above the threshold.
C14_AbbreviationRetrievesItsItem ==
  (LegacyAnswered /\ Ans.trace.pre_filters = Nothing /\ Ans.trace.top_k >= Len(LegacyRows))
    => \A i \in 1..Len(LegacyRows) :
         (/\ \/ MinedFrom(LegacyRows[i].title, Lower(Ans.trace.query))
             \/ MinedFrom(LegacyRows[i].description, Lower(Ans.trace.query))
          /\ Ans.trace.sims[i] >= similarity_threshold)
           => /\ Ans.outcome = "ok"
              /\ \E k \in 1..Len(Ans.results) : Ans.results[k].row = i

\* C15: expanding an expanded query again changes nothing:
\* expand_query(expand_query(q, m), m) = expand_query(q, m) for every query
\* q and mined map m.
C15_ExpansionIdempotent ==
  LegacyAnswered
    => expand_query(Ans.debug_info.expanded_query, Rec.abbr_map)
         = Ans.debug_info.expanded_query

\* C16: expansion adds to the abbreviation and does not replace it: for
\* every entry of the mined map and every query that has the abbreviation
\* as a token, the expanded query has the abbreviation as a token and
\* contains its expansion.
C16_ExpansionKeepsAbbreviation ==
  LegacyAnswered
    => \A e \in 1..Len(Rec.abbr_map) :
         (\E t \in 1..Len(Split(Lower(Ans.trace.query))) :
            Split(Lower(Ans.trace.query))[t] = Rec.abbr_map[e].abbr)
           => /\ \E t \in 1..Len(Split(Ans.debug_info.expanded_query)) :
                   Split(Ans.debug_info.expanded_query)[t] = Rec.abbr_map[e].abbr
              /\ Contains(Ans.debug_info.expanded_query, Rec.abbr_map[e].expansion)

\* what a recommender that computes the embeddings and the map of the same
\* catalog afresh (empty cache directory) answers to the same call
FreshAnswer ==
  CourseRecommender_recommend(
    load_courses(CourseRecommender_init, {}, Some(LegacyRows), env.ml).rec,
    Ans.trace.query, Ans.trace.top_k, Ans.trace.pre_filters, Ans.trace.sims,
    similarity_threshold)

\* C18: for a fixed catalog, after any sequence of load_courses calls and
\* process restarts, recommend gives the same results for the same query
\* whether the embeddings and the abbreviation map were computed afresh or
\* read from the cache of the catalog's hash, and fails in neither case.
C18_CacheAndFreshAgree ==
  (LegacyAnswered /\ Rec.loaded_from \in {"fresh", "cache"})
    => /\ Ans.outcome = "ok"
       /\ Ans.results = FreshAnswer.results
       /\ Ans.debug_info = FreshAnswer.debug_info

\* C21: the threshold_used of the response's debug_info is the threshold at
\* which the returned candidates were gated: the primary (Arabic or general)
\* threshold when the gate ran once, the relaxed threshold when the
\* candidates of the relaxed pass replaced those of the primary pass.
C21_ThresholdUsedIsGatingThreshold ==
  (Answered /\ Resp.trace.path = "semantic" /\ Len(Resp.trace.gate_log) >= 1)
    => Resp.debug_info.threshold_used = Resp.trace.gate_log[Len(Resp.trace.gate_log)]

\* the strict technical keywords among the tokens of the normalized query
StrictTokens(norm_query) ==
  LET tokens == Split(norm_query)
  IN  {tokens[i] : i \in {j \in 1..Len(tokens) : Lower(tokens[j]) \in STRICT_TECH_KEYWORDS}}

Called(fn) == lib_call # Nothing /\ Get(lib_call).fn = fn
Args == Get(lib_call)
Result == Get(lib_result)

\* kw is a case-insensitive substring of text, both taken as they are given
SubstringNoCase(text, kw) == Contains(Lower(text), Lower(kw))

\* kw is a case-insensitive substring of text once the blanks around each
\* of the two are dropped
SubstringTrimmed(text, kw) == Contains(Lower(Strip(text)), Lower(Strip(kw)))

\* C23 as stated: apply_filters returns, in input order, exactly the items of
\* which no exclude keyword is a case-insensitive substring of title or
\* category and, with allowed categories given, of whose category some
\* allowed category is a case-insensitive substring; exclusion wins, an empty
\* input gives [], and without filters the input comes back unchanged.
C23_ExactlyTheUnexcludedAllowed ==
  Called("apply_filters")
    => LET allowed == IF Args.allowed_categories = Nothing THEN <<>>
                      ELSE Get(Args.allowed_categories)
           exclude == IF Args.exclude_keywords = Nothing THEN <<>>
                      ELSE Get(Args.exclude_keywords)
           Wanted(item) ==
             /\ \A i \in 1..Len(exclude) :
                  /\ ~SubstringNoCase(item.title, exclude[i])
                  /\ ~SubstringNoCase(item.category, exclude[i])
             /\ Len(allowed) > 0
                  => \E i \in 1..Len(allowed) : SubstringNoCase(item.category, allowed[i])
       IN  Result = SelectSeq(Args.results, Wanted)

\* C23: the same with the substring tests made after the blanks around
\* keyword, category name, title and category are dropped.
C23_ExactlyTheUnexcludedAllowedTrimmed ==
  Called("apply_filters")
    => LET allowed == IF Args.allowed_categories = Nothing THEN <<>>
                      ELSE Get(Args.allowed_categories)
           exclude == IF Args.exclude_keywords = Nothing THEN <<>>
                      ELSE Get(Args.exclude_keywords)
           Wanted(item) ==
             /\ \A i \in 1..Len(exclude) :
                  /\ ~SubstringTrimmed(item.title, exclude[i])
                  /\ ~SubstringTrimmed(item.category, exclude[i])
             /\ Len(allowed) > 0
                  => \E i \in 1..Len(allowed) : SubstringTrimmed(item.category, allowed[i])
       IN  /\ Result = SelectSeq(Args.results, Wanted)
           /\ Len(Args.results) = 0 => Result = <<>>
           /\ (Len(allowed) = 0 /\ Len(exclude) = 0) => Result = Args.results

\* both filters given: an item of an allowed category was dropped for an
\* exclude keyword in its title, another item was kept
C23_Witness ==
  /\ Called("apply_filters")
  /\ Args.allowed_categories = Some(<<"Programming", "Data">>)
  /\ Args.exclude_keywords = Some(<<"php", "react">>)
  /\ Len(Result) >= 1
  /\ \E i \in 1..Len(Args.results) :
       /\ Args.results[i].title = "PHP for Dummies"
       /\ \A j \in 1..Len(Result) : Result[j] # Args.results[i]

\* the keyword is found in the title, the skills or the description
Found(course, kw) ==
  \/ check_match(CourseField(course.title), kw)
  \/ check_match(CourseField(course.skills), kw)
  \/ check_match(CourseField(course.description), kw)

\* the tokens of the query that count as keywords, in query order
QueryKeywords(query) ==
  LET tokens == Split(query)
      Strong(t) == \/ Lower(t) \in STRICT_TECH_KEYWORDS
                   \/ (Len(t) >= 2 /\ Lower(t) \notin GatingStopwords)
  IN  SelectSeq(tokens, Strong)

\* the keywords of the query found in the course, in query order
FoundKeywords(course, query) ==
  LET InCourse(kw) == Found(course, kw)
  IN  SelectSeq(QueryKeywords(query), InCourse)

C25_LongQueryKeywordOrCeiling ==
  Called("check_gating")
    => LET no_keywords == QueryKeywords(Args.normalized_query) = <<>>
           found == FoundKeywords(Args.course, Args.normalized_query)
       IN  /\ (/\ ~Args.is_short_query
               /\ StrictTokens(Args.normalized_query) = {}
               /\ Args.score >= Args.threshold)
                => /\ Result.valid <=> (no_keywords \/ found # <<>> \/ Args.score > 60)
                   /\ (Result.valid /\ no_keywords) => Result.matched = <<>>
                   /\ (Result.valid /\ ~no_keywords /\ found # <<>>) => Result.matched = found
                   /\ (Result.valid /\ ~no_keywords /\ found = <<>>) => Result.matched = <<>>
           /\ Args.score < Args.threshold
                => (~Result.valid /\ Result.matched = <<>>)

\* a query of keywords none of which is in the item: turned away at exactly
\* 0.60 although the threshold is passed
C25_Witness ==
  /\ Called("check_gating")
  /\ ~Args.is_short_query
  /\ Args.normalized_query = "how lead big team"
  /\ FoundKeywords(Args.course, Args.normalized_query) = <<>>
  /\ Args.score = 60
  /\ Args.threshold = SEMANTIC_THRESHOLD_GENERAL
  /\ ~Result.valid

\* the text holds a character of the Arabic script
HasArabicLetter(text) == \E i \in 1..Len(text) : Ch(text, i) \in CharSet(ArabicChars)

\* C26: the primary gating threshold of a request is the Arabic threshold
\* exactly when the raw query, as sent, holds an Arabic-script character, and
\* the general threshold otherwise; the configured thresholds are ordered
\* relaxed < Arabic < general.
C26_PrimaryThresholdFromRawQuery ==
  /\ SEMANTIC_THRESHOLD_RELAXED < SEMANTIC_THRESHOLD_ARABIC
  /\ SEMANTIC_THRESHOLD_ARABIC < SEMANTIC_THRESHOLD_GENERAL
  /\ HasResponse
       => LET primary == IF HasArabicLetter(Resp.trace.request.query)
                         THEN SEMANTIC_THRESHOLD_ARABIC
                         ELSE SEMANTIC_THRESHOLD_GENERAL
          IN  /\ Len(Resp.trace.gate_log) >= 1 => Resp.trace.gate_log[1] = primary
              /\ (Resp.outcome = "ok" /\ "threshold_used" \in DOMAIN Resp.debug_info)
                   => Resp.debug_info.threshold_used = primary

\* an Arabic query whose normalized text has no Arabic letter left was gated
\* at the Arabic threshold, and a hit scoring below the general threshold
\* passed
C26_Witness ==
  /\ Answered
  /\ HasArabicLetter(Resp.trace.request.query)
  /\ ~HasArabicLetter(Resp.trace.norm_query)
  /\ Resp.trace.gate_log = <<SEMANTIC_THRESHOLD_ARABIC>>
  /\ \E i \in 1..Len(Resp.results) :
       Resp.results[i].score < SEMANTIC_THRESHOLD_GENERAL

\* the candidates xs are among the candidates ys, in the same relative
\* order, each with the same matched keywords
KeptInOrder(xs, ys) ==
  /\ \A i \in 1..Len(xs) :
       \E j \in 1..Len(ys) : /\ ys[j].idx = xs[i].idx
                             /\ ys[j].matched_keywords = xs[i].matched_keywords
                             /\ ys[j].score = xs[i].score
  /\ \A i1, i2 \in 1..Len(xs) :
       i1 < i2 => \E j1, j2 \in 1..Len(ys) :
                    /\ j1 < j2
                    /\ ys[j1].idx = xs[i1].idx
                    /\ ys[j2].idx = xs[i2].idx

\* the gate accepts at every lower threshold, with the same matched
\* keywords, what it accepts at a threshold: a course in which the keywords
\* `found` of the query's `keywords` were found
MonotoneGate(score, keywords, found, is_short) ==
  \A t, lower \in GateThresholds :
    (lower <= t /\ GateDecision(score, t, keywords, found, is_short).valid)
      => GateDecision(score, lower, keywords, found, is_short)
           = GateDecision(score, t, keywords, found, is_short)

\* C27: check_gating is monotone in the threshold: a hit accepted at a
\* threshold is accepted with the same matched keywords at every lower
\* threshold; so the candidates of the pass at the relaxed threshold hold
\* every candidate of the pass at the primary threshold, in the same
\* relative order.
C27_RelaxationKeepsCandidates ==
  (HasResponse /\ Resp.trace.path = "semantic")
    => LET tr == Resp.trace
       IN  /\ \A keywords \in {QueryKeywords(tr.norm_query)} :
                \A i \in {j \in 1..Len(tr.hits) : tr.hits[j].idx < Len(Catalog)} :
                  \A found \in {FoundKeywords(Catalog[tr.hits[i].idx + 1], tr.norm_query)} :
                    MonotoneGate(tr.hits[i].score, keywords, found, tr.is_short)
           /\ Len(tr.gate_log) = 2
                => /\ tr.gate_log[2] <= tr.gate_log[1]
                   /\ KeptInOrder(tr.first_pass, tr.gated)

\* the pass at the relaxed threshold kept the candidates of the first pass
\* and added one
C27_Witness ==
  /\ Answered
  /\ Len(Resp.trace.gate_log) = 2
  /\ Len(Resp.trace.first_pass) >= 1
  /\ Len(Resp.trace.gated) > Len(Resp.trace.first_pass)

\* C28: when the filters of the request name a level or a category other
\* than "Any", every returned result has that level and that category, on
\* the semantic path and on the keyword fallback path, at the primary and
\* at the relaxed threshold.
C28_ResultsObeyFilters ==
  (Answered /\ Resp.trace.request.filters # Nothing)
    => LET f == Get(Resp.trace.request.filters)
       IN  \A i \in 1..Len(Resp.results) :
             /\ f.level \notin {None, "Any"} => CourseOf(Resp.results[i]).level = f.level
             /\ f.category \notin {None, "Any"}
                  => CourseOf(Resp.results[i]).category = f.category

\* C29: the results of a response are in non-increasing order of their
\* final score, total_found is the number of results and at most top_k;
\* with reranking off and on, also when more than 20 candidates survive and
\* the list holds entries of the tail the reranker did not score.
C29_ResultsOrderedByScore ==
  Answered
    => /\ \A i \in 1..(Len(Resp.results) - 1) :
            Resp.results[i].score >= Resp.results[i + 1].score
       /\ Resp.total_found = Len(Resp.results)
       /\ Resp.trace.path # "none" => Resp.total_found <= Resp.trace.request.top_k

\* the course counts never go up along the list
Descending(s) == \A i \in 1..(Len(s) - 1) : s[i].course_count >= s[i + 1].course_count

\* C30: in the report of build_catalog_weekly_report, for any number of
\* categories and any top_n and bottom_n, 'categories' is in descending
\* order of course_count, top_categories are its first top_n entries,
\* low_coverage_categories are its last bottom_n entries in ascending order,
\* the 'highest category' insight names a category of the largest count and
\* the 'lowest coverage' insight one of the smallest count.
C30_CategoriesSortedTopAndBottom ==
  (Called("build_catalog_weekly_report") /\ Result.status = "ok")
    => LET cats == Result.categories
           n == Len(cats)
           low == Result.low_coverage_categories
           b == IF Args.bottom_n < n THEN Args.bottom_n ELSE n
       IN  /\ Descending(cats)
           /\ Result.top_categories = Take(cats, Args.top_n)
           /\ Len(low) = b
           /\ \A i \in 1..(Len(low) - 1) : low[i].course_count <= low[i + 1].course_count
           /\ {low[i] : i \in 1..Len(low)} = {cats[i] : i \in (n - b + 1)..n}
           /\ n > 0
                => /\ \A i \in 1..n : Get(Result.highest).course_count >= cats[i].course_count
                   /\ \A i \in 1..n : Get(Result.lowest).course_count <= cats[i].course_count

=============================================================================
